---- MODULE Spec2Model ----
(***************************************************************************)
(* Model of the VolView dataset import / primary-selection pipeline:       *)
(*   src/src/actions/loadUserFiles.ts   selection engine and load wrapper  *)
(*   src/src/store/load-data.ts         loading counter, notifications,    *)
(*                                      loaded-by-bus session records      *)
(*                                                                         *)
(* Strings the code takes apart (file names, Modality) are sequences of    *)
(* one-character strings, so that split('.'), startsWith and trim are      *)
(* computed.  Strings the code only passes around are TLA+ strings.        *)
(***************************************************************************)
EXTENDS Integers, Sequences, FiniteSets, TLC

\* ------------------------------------------------------------------ bounds
\* sources in one batch of the selection specifications
MaxBatch == 3
\* loadDataSources calls that may overlap
MaxLoads == 2
\* direct calls of the store's startLoading / stopLoading (SpecApi)
MaxApiCalls == 2

\* ----------------------------------------------------------------- strings
Dot == "."
Space == " "

Range(s) == { s[i] : i \in 1..Len(s) }

\* String.prototype.split('.'): always at least one component
RECURSIVE split(_)
split(s) ==
  IF \A i \in 1..Len(s) : s[i] # Dot
    THEN << s >>
    ELSE LET k == CHOOSE i \in 1..Len(s) :
                     s[i] = Dot /\ \A j \in 1..(i - 1) : s[j] # Dot
         IN  << SubSeq(s, 1, k - 1) >> \o split(SubSeq(s, k + 1, Len(s)))

\* String.prototype.startsWith
startsWith(s, prefix) ==
  /\ Len(prefix) <= Len(s)
  /\ SubSeq(s, 1, Len(prefix)) = prefix

\* String.prototype.trim
RECURSIVE trim(_)
trim(s) ==
  IF s = << >> THEN s
  ELSE IF Head(s) = Space THEN trim(Tail(s))
  ELSE IF s[Len(s)] = Space THEN trim(SubSeq(s, 1, Len(s) - 1))
  ELSE s

EmptyString == << >>
CT == << "C", "T" >>
MR == << "M", "R" >>
US == << "U", "S" >>
DX == << "D", "X" >>
PT == << "P", "T" >>
SEG == << "S", "E", "G" >>
SEG_padded == << "S", "E", "G", " " >>

seg == << "s", "e", "g" >>
ct_dcm == << "c", "t", ".", "d", "c", "m" >>
pt_dcm == << "p", "t", ".", "d", "c", "m" >>
ct_seg_dcm == << "c", "t", ".", "s", "e", "g", ".", "d", "c", "m" >>
scan_nii == << "s", "c", "a", "n", ".", "n", "i", "i" >>
scan_seg_nii == << "s", "c", "a", "n", ".", "s", "e", "g", ".", "n", "i", "i" >>
other_seg_nii ==
  << "o", "t", "h", "e", "r", ".", "s", "e", "g", ".", "n", "i", "i" >>
scanner_seg_nii ==
  << "s", "c", "a", "n", "n", "e", "r", ".", "s", "e", "g", ".", "n", "i", "i" >>
seg_nii == << "s", "e", "g", ".", "n", "i", "i" >>
scan_seg_vtp == << "s", "c", "a", "n", ".", "s", "e", "g", ".", "v", "t", "p" >>

\* ------------------------------------------------- imported data (fixtures)
\* An import result is identified by its dataID.  The table gives, per
\* dataID, what the code reads about it: the result's dataType, the name of
\* its data source (getDataSourceName; empty = no name), and for DICOM
\* volumes dicomStore.volumeInfo (Modality, NumberOfSlices; 0 = the field is
\* absent) and the StudyInstanceUID of dicomStore.studyInfo[volumeStudy[id]]
\* ("" = undefined).  dataType "config" is a result that is not loadable.
Undefined == "undefined"

Dicom(name, modality, slices, study) ==
  [ dataType |-> "dicom", name |-> name, Modality |-> modality,
    NumberOfSlices |-> slices, StudyInstanceUID |-> study ]

Other(type, name) ==
  [ dataType |-> type, name |-> name, Modality |-> EmptyString,
    NumberOfSlices |-> 0, StudyInstanceUID |-> "" ]

DicomCatalog ==
     "ct2"  :> Dicom(ct_dcm, CT, 2, "study1")
  @@ "ct1"  :> Dicom(ct_dcm, CT, 1, "study1")
  @@ "ct0"  :> Dicom(ct_dcm, CT, 0, "study1")
  @@ "ct0b" :> Dicom(ct_dcm, CT, 0, "study2")
  @@ "mr2"  :> Dicom(ct_dcm, MR, 2, "study2")
  @@ "us1"  :> Dicom(ct_dcm, US, 1, "study1")
  @@ "dx1"  :> Dicom(ct_dcm, DX, 1, "study2")
  @@ "pt1"  :> Dicom(pt_dcm, PT, 1, "study1")
  @@ "pt2"  :> Dicom(pt_dcm, PT, 2, "study1")
  @@ "pt3"  :> Dicom(pt_dcm, PT, 1, "study2")
  @@ "seg1" :> Dicom(ct_seg_dcm, SEG_padded, 1, "study1")
  @@ "seg2" :> Dicom(ct_seg_dcm, SEG, 1, "study2")

FileCatalog ==
     "scan"       :> Other("image", scan_nii)
  @@ "scanB"      :> Other("image", scan_nii)
  @@ "scanSeg"    :> Other("image", scan_seg_nii)
  @@ "otherSeg"   :> Other("image", other_seg_nii)
  @@ "scannerSeg" :> Other("image", scanner_seg_nii)
  @@ "segNii"     :> Other("image", seg_nii)
  @@ "unnamed"    :> Other("image", EmptyString)
  @@ "mesh"       :> Other("model", scan_seg_vtp)
  @@ "config"     :> Other("config", EmptyString)

Catalog == DicomCatalog @@ FileCatalog

dataType(id) == IF id \in DOMAIN Catalog THEN Catalog[id].dataType ELSE Undefined
getDataSourceName(id) == Catalog[id].name
volumeInfo(id) == Catalog[id]

\* a per-source pipeline result: success with its data, or failure with errors
Success(ids) == [ ok |-> TRUE, data |-> ids, errors |-> << >> ]
Failure(errs) == [ ok |-> FALSE, data |-> << >>, errors |-> errs ]

partitionResults(results) ==
  [ succeeded |-> SelectSeq(results, LAMBDA r : r.ok),
    errored |-> SelectSeq(results, LAMBDA r : ~r.ok) ]

isLoadableResult(id) == dataType(id) \in { "dicom", "image", "model" }
isVolumeResult(id) == dataType(id) \in { "dicom", "image" }
toDataSelection(id) == id

\* ------------------------------------------- primary selection and linking
\* higher value priority is preferred for picking a primary selection
BASE_MODALITY_TYPES == (CT :> 3) @@ (MR :> 3) @@ (US :> 2) @@ (DX :> 1)

priority(id) == BASE_MODALITY_TYPES[volumeInfo(id).Modality]

\* faulty variant: fewer slices preferred
compare_fewerSlicesFirst(a, b) ==
  LET priorityDiff == priority(a) - priority(b)
      infoA == volumeInfo(a)
      infoB == volumeInfo(b)
  IN  IF priorityDiff # 0 THEN priorityDiff
      ELSE IF infoA.NumberOfSlices = 0 THEN 1
      ELSE IF infoB.NumberOfSlices = 0 THEN -1
      ELSE infoA.NumberOfSlices - infoB.NumberOfSlices

\* the comparator handed to Array.prototype.sort by findBaseDicom
compare(a, b) ==
  LET priorityDiff == priority(a) - priority(b)
      infoA == volumeInfo(a)
      infoB == volumeInfo(b)
  IN  IF priorityDiff # 0 THEN priorityDiff
      ELSE IF infoA.NumberOfSlices = 0 THEN 1
      ELSE IF infoB.NumberOfSlices = 0 THEN -1
      ELSE infoB.NumberOfSlices - infoA.NumberOfSlices

\* Array.prototype.sort(compare): every arrangement of s a sort may return.
\* x stays before y when the comparator puts neither first (stable sort);
\* x is not placed before y when the comparator, asked both ways, puts y
\* first; where the comparator contradicts itself (two volumes that both
\* lack NumberOfSlices) the order is implementation-defined: either.
sort(s) ==
  LET n == Len(s)
      MayPrecede(i, j) ==
        IF compare(s[i], s[j]) = 0 /\ compare(s[j], s[i]) = 0 THEN i < j
        ELSE ~(compare(s[i], s[j]) > 0 /\ compare(s[j], s[i]) < 0)
      Arrangements ==
        { p \in [1..n -> 1..n] :
            /\ \A i, j \in 1..n : i # j => p[i] # p[j]
            /\ \A i, j \in 1..n : i < j => MayPrecede(p[i], p[j]) }
  IN  { [k \in 1..n |-> s[p[k]]] : p \in Arrangements }

\* the values findBaseDicom may return
findBaseDicom(loadableDataSources) ==
  LET dicoms == SelectSeq(loadableDataSources, LAMBDA id : dataType(id) = "dicom")
      candidates ==
        SelectSeq(dicoms,
                  LAMBDA id : volumeInfo(id).Modality \in DOMAIN BASE_MODALITY_TYPES)
  IN  { IF Len(baseDicomVolumes) > 0 THEN baseDicomVolumes[1] ELSE Undefined :
          baseDicomVolumes \in sort(candidates) }

\* faulty variant: the first component of the name counts too
isSegmentation_anyComponent(extension, name) ==
  IF extension = EmptyString THEN FALSE
  ELSE extension \in Range(split(name))

isSegmentation(extension, name) ==
  IF extension = EmptyString THEN FALSE
  ELSE extension \in Range(Tail(split(name)))

findBaseImage(loadableDataSources, segmentGroupExtension_) ==
  LET images == SelectSeq(loadableDataSources, LAMBDA id : dataType(id) = "image")
      baseImages ==
        SelectSeq(images,
                  LAMBDA id :
                    IF getDataSourceName(id) = EmptyString THEN FALSE
                    ELSE ~isSegmentation(segmentGroupExtension_,
                                         getDataSourceName(id)))
  IN  IF Len(baseImages) > 0 THEN baseImages[1] ELSE Undefined

RECURSIVE flatMap(_)
flatMap(succeeded) ==
  IF succeeded = << >> THEN << >>
  ELSE SelectSeq(Head(succeeded).data, isLoadableResult) \o flatMap(Tail(succeeded))

filterLoadableDataSources(succeeded) == flatMap(succeeded)

\* faulty variant: the first component of the name has to equal the primary's
filterMatchingNames_samePrefix(primaryDataSource, succeeded, extension) ==
  LET primaryName == getDataSourceName(primaryDataSource)
      primaryNamePrefix == Head(split(primaryName))
  IN  IF primaryName = EmptyString THEN << >>
      ELSE SelectSeq(filterLoadableDataSources(succeeded),
                     LAMBDA ds :
                       /\ ds # primaryDataSource
                       /\ getDataSourceName(ds) # EmptyString
                       /\ isSegmentation(extension, getDataSourceName(ds))
                       /\ Head(split(getDataSourceName(ds))) = primaryNamePrefix)

filterMatchingNames(primaryDataSource, succeeded, extension) ==
  LET primaryName == getDataSourceName(primaryDataSource)
      primaryNamePrefix == Head(split(primaryName))
  IN  IF primaryName = EmptyString THEN << >>
      ELSE SelectSeq(filterLoadableDataSources(succeeded),
                     LAMBDA ds :
                       /\ ds # primaryDataSource
                       /\ getDataSourceName(ds) # EmptyString
                       /\ isSegmentation(extension, getDataSourceName(ds))
                       /\ startsWith(getDataSourceName(ds), primaryNamePrefix))

getStudyUID(volumeID) == Catalog[volumeID].StudyInstanceUID

\* the values findBaseDataSource may return
findBaseDataSource(succeeded, segmentGroupExtension_) ==
  LET loadableDataSources == filterLoadableDataSources(succeeded)
      baseImage == findBaseImage(loadableDataSources, segmentGroupExtension_)
  IN  { IF baseDicom # Undefined THEN baseDicom
        ELSE IF baseImage # Undefined THEN baseImage
        ELSE IF Len(loadableDataSources) > 0 THEN loadableDataSources[1]
        ELSE Undefined :
          baseDicom \in findBaseDicom(loadableDataSources) }

\* faulty variant: the study is not compared
filterOtherVolumesInStudy_anyStudy(volumeID, succeeded) ==
  SelectSeq(filterLoadableDataSources(succeeded),
            LAMBDA ds : dataType(ds) = "dicom" /\ ds # volumeID)

filterOtherVolumesInStudy(volumeID, succeeded) ==
  LET targetStudyUID == getStudyUID(volumeID)
      dicomDataSources ==
        SelectSeq(filterLoadableDataSources(succeeded),
                  LAMBDA id : dataType(id) = "dicom")
  IN  SelectSeq(dicomDataSources,
                LAMBDA ds : getStudyUID(ds) = targetStudyUID /\ ds # volumeID)

\* a call of a collaborating store made by a load
Call(op, a, b) == [ op |-> op, a |-> a, b |-> b ]

\* loadLayers: the layersStore.addLayer calls it makes (none or one)
loadLayers(primaryDataSource, succeeded) ==
  IF dataType(primaryDataSource) # "dicom" THEN << >>
  ELSE LET otherVolumesInStudy ==
             filterOtherVolumesInStudy(primaryDataSource, succeeded)
           primaryModality == volumeInfo(primaryDataSource).Modality
           found == SelectSeq(otherVolumesInStudy,
                              LAMBDA ds : volumeInfo(ds).Modality = PT)
       IN  IF primaryModality # CT THEN << >>
           ELSE IF found = << >> THEN << >>
           ELSE << Call("addLayer", toDataSelection(primaryDataSource),
                        toDataSelection(found[1])) >>

\* faulty variant: a candidate of both lists is registered once
loadSegmentations_deduplicated(primaryDataSource, succeeded, segmentGroupExtension_) ==
  LET otherSegVolumesInStudy ==
        SelectSeq(filterOtherVolumesInStudy(primaryDataSource, succeeded),
                  LAMBDA ds :
                    IF volumeInfo(ds).Modality = EmptyString THEN FALSE
                    ELSE trim(volumeInfo(ds).Modality) = SEG)
      matchingNames ==
        SelectSeq(filterMatchingNames(primaryDataSource, succeeded,
                                      segmentGroupExtension_),
                  LAMBDA ds : /\ isVolumeResult(ds)
                              /\ ds \notin Range(otherSegVolumesInStudy))
      all == otherSegVolumesInStudy \o matchingNames
  IN  [ k \in 1..Len(all) |->
          Call("convertImageToLabelmap", toDataSelection(all[k]),
               toDataSelection(primaryDataSource)) ]

\* faulty variant: the name-matched candidates are registered first
loadSegmentations_namesFirst(primaryDataSource, succeeded, segmentGroupExtension_) ==
  LET matchingNames ==
        SelectSeq(filterMatchingNames(primaryDataSource, succeeded,
                                      segmentGroupExtension_),
                  isVolumeResult)
      otherSegVolumesInStudy ==
        SelectSeq(filterOtherVolumesInStudy(primaryDataSource, succeeded),
                  LAMBDA ds :
                    IF volumeInfo(ds).Modality = EmptyString THEN FALSE
                    ELSE trim(volumeInfo(ds).Modality) = SEG)
      all == matchingNames \o otherSegVolumesInStudy
  IN  [ k \in 1..Len(all) |->
          Call("convertImageToLabelmap", toDataSelection(all[k]),
               toDataSelection(primaryDataSource)) ]

\* loadSegmentations: the segmentGroupStore.convertImageToLabelmap calls it
\* makes, in order
loadSegmentations(primaryDataSource, succeeded, segmentGroupExtension_) ==
  LET matchingNames ==
        SelectSeq(filterMatchingNames(primaryDataSource, succeeded,
                                      segmentGroupExtension_),
                  isVolumeResult)
      otherSegVolumesInStudy ==
        SelectSeq(filterOtherVolumesInStudy(primaryDataSource, succeeded),
                  LAMBDA ds :
                    IF volumeInfo(ds).Modality = EmptyString THEN FALSE
                    ELSE trim(volumeInfo(ds).Modality) = SEG)
      all == otherSegVolumesInStudy \o matchingNames
  IN  [ k \in 1..Len(all) |->
          Call("convertImageToLabelmap", toDataSelection(all[k]),
               toDataSelection(primaryDataSource)) ]

\* --------------------------------------------------------------- state
VARIABLES
  segmentGroupExtension, \* loadDataStore.segmentGroupExtension
  loadedByBus,           \* loadDataStore.loadedByBus: key -> record (field -> value)
  loadingCount,          \* useLoadingNotifications: loadingCount
  loadingError,          \* useLoadingNotifications: loadingError
  watched,               \* the loadingCount value the watcher last ran with
  pendingFlush,          \* the watcher's job is queued and has not run yet
  toastID,               \* useLoadingNotifications: toastID
  toastOpen,             \* the toast toastID names is on screen
  toastContent,          \* what that toast shows
  toastOnClose,          \* that toast's options carry the onClose callback
  messages,              \* errors handed to messageStore.addError, in order
  primarySelection,      \* dataStore.primarySelection
  layout,                \* viewStore's layout, as set by setLayoutByName
  pc,                    \* per loadDataSources call: where it stands
  outcome,               \* per call: state of its importDataSources promise
  sources,               \* per call: the per-source results its import delivers
  volumeKeySuffix,       \* per call: the volumeKeySuffix argument ("" = undefined)
  barrier,               \* per call: a watcher job queued before the call's last
                         \* step has to run before its next continuation
  calls,                 \* per call: the store calls it has made, in order
  primaryDataSource,     \* per call: load()'s local primaryDataSource
  apiStarts,             \* direct startLoading() calls made so far
  apiStops,              \* direct stopLoading() calls made so far
  busCall,               \* the latest direct setLoadedByBus call: its arguments
  loadOptions,           \* per loadUrls call: loadOptions, the rest of its options
  selection,             \* per call: onAfterLoadedByBus's selection
  retryCount,            \* per call: tryGetImageID's retryCount
  imageID,               \* per call: tryGetImageID's imageID
  volumes,               \* per volume recorded for a key: its entry in the
                         \* record's volumes (layoutName, wlConfiged)
  mounted,               \* the component that called useEventBus is mounted
  instance,              \* useEventBus calls so far; the latest is the current
  windowBus,             \* window.$bus is defined
  emitter,               \* the injected emitter: per event, the owners of the
                         \* handlers registered, in order
  listeners,             \* owners of the window 'message' listeners, in order
  ports,                 \* per useEventBus call: ports, peer ID -> port (0 = none)
  portHandlers,          \* per port: the closures set as its onclose/onmessage
  portOpen,              \* per port: it has not been closed
  portCount,             \* ports handed over so far
  embedded,              \* window.parent !== window, once it has been read
  query,                 \* useUrlSearchParams(): the query of the page
  electron,              \* window.$electron is defined
  waiting,               \* useEventBus calls whose onMounted waits for the host
  requested,             \* the requestMessagePort calls made, in order
  lastEvent,             \* what the latest message or emitted event did
  wlSetup,               \* useWindowingConfigInitializer(viewID, imageID) was called
  imageData,             \* useImage(imageID).imageData is there
  windowConfig,          \* the windowing store's config of (viewID, imageID)
  firstTag,              \* the first window level of the volume's DICOM tags
  runtimeConfigWindowLevel, \* store.runtimeConfigWindowLevel
  wlCalls,               \* the store calls of the initializer's latest watcher runs
  fileCounter,           \* dicom-web-api.ts: fileCounter
  fetches,               \* per fetchSeries/fetchInstance call: where it stands
  files,                 \* the names of the files toFile made, in order
  location,              \* document.location: its href and its query
  peerIds,               \* per useEventBus call, in order: its const peerId
  stateFile,             \* the StateFile handed to serializeData: manifest and zip
  lastSerialize,         \* the latest serializeData call and what it threw
  cache,                 \* getRemoteFile: cache, per url
  fetchCount,            \* fetchFile calls made, per url
  requests,              \* per getFile call: where it stands, and its result
  configs,               \* the slice store's configs: (viewID, dataID) -> config
  imageIDToVolumeKeyUID, \* loadDataStore.imageIDToVolumeKeyUID: image ID -> key
  resetCall              \* the resetSlice call under way: where it stands

vars ==
  << segmentGroupExtension, loadedByBus, loadingCount, loadingError, watched,
     pendingFlush, toastID, toastOpen, toastContent, toastOnClose, messages,
     primarySelection, layout, pc, outcome, sources, volumeKeySuffix, barrier,
     calls, primaryDataSource, apiStarts, apiStops, busCall, loadOptions,
     selection, retryCount, imageID, volumes, mounted, instance, windowBus,
     emitter, listeners, ports, portHandlers, portOpen, portCount, embedded,
     query,
     electron, waiting, requested, lastEvent, wlSetup, imageData,
     windowConfig, firstTag, runtimeConfigWindowLevel, wlCalls, fileCounter,
     fetches, files, location, peerIds, stateFile, lastSerialize,
     cache, fetchCount, requests, configs, imageIDToVolumeKeyUID, resetCall >>

loadVars ==
  << pc, outcome, sources, volumeKeySuffix, calls, primaryDataSource >>
toastVars ==
  << toastID, toastOpen, toastContent, toastOnClose, messages >>
\* the state of the bus bridge and of the direct store calls
pollVars == << selection, retryCount, imageID >>
\* the state of useEventBus
bridgeVars ==
  << mounted, instance, windowBus, emitter, listeners, ports, portHandlers,
     portOpen, portCount, embedded, query, electron, waiting, requested,
     lastEvent >>
\* the state of the windowing initializer of one view and image
windowingVars ==
  << wlSetup, imageData, windowConfig, firstTag, runtimeConfigWindowLevel,
     wlCalls >>
\* the state of the DICOM-web client
clientVars == << fileCounter, fetches, files >>
\* the peer ID of each useEventBus call and the page it was made on
peerVars == << location, peerIds >>
\* the state of the parts that are followed on their own
\* the state file being written
stateFileVars == << stateFile, lastSerialize >>
\* the remote files of a state file being read
remoteVars == << cache, fetchCount, requests >>
\* the state of the slice store and of its resetSlice call
sliceVars == << configs, imageIDToVolumeKeyUID, resetCall >>
partVars == << peerVars, stateFileVars, remoteVars, sliceVars >>
busVars ==
  << busCall, loadOptions, pollVars, volumes, bridgeVars, windowingVars, clientVars, partVars >>
\* the state of the loading notifications and of the loads
notifyVars ==
  << segmentGroupExtension, loadingCount, loadingError, watched, pendingFlush,
     toastVars, primarySelection, layout, loadVars, barrier, apiStarts,
     apiStops >>

Loads == 1..MaxLoads

NoError == [ kind |-> "none", lines |-> << >> ]
NoCall == [ key |-> "none", value |-> << >> ]
Null == "null"

\* ------------------------------------------------------ load-data store
\* faulty variant: a flag instead of a counter
startLoading_flag(count) == 1

startLoading(count) == count + 1

\* faulty variant: the decrement is not guarded
stopLoading_unguarded(count) == count - 1

stopLoading(count) == IF count = 0 THEN count ELSE count - 1

isLoading == loadingCount > 0

getLoadedByBus(volumeKeyUID) ==
  IF volumeKeyUID # "" THEN loadedByBus[volumeKeyUID] ELSE << >>

\* faulty variant: the value replaces the record of the key
setLoadedByBusIn_replace(table, volumeKeyUID, value) ==
  IF volumeKeyUID = "" THEN table
  ELSE [ k \in DOMAIN table \cup { volumeKeyUID } |->
           IF k = volumeKeyUID THEN value ELSE table[k] ]

\* setLoadedByBus(volumeKeyUID, value) on a given loadedByBus table: the table
\* after the call ("" = an undefined key)
setLoadedByBusIn(table, volumeKeyUID, value) ==
  IF volumeKeyUID = "" THEN table
  ELSE LET old == IF volumeKeyUID \in DOMAIN table
                    THEN table[volumeKeyUID] ELSE << >>
           merged == [ f \in DOMAIN old \cup DOMAIN value |->
                         IF f \in DOMAIN value THEN value[f] ELSE old[f] ]
       IN  [ k \in DOMAIN table \cup { volumeKeyUID } |->
               IF k = volumeKeyUID THEN merged ELSE table[k] ]

\* the loadedByBus table after setLoadedByBus(volumeKeyUID, value)
setLoadedByBus(volumeKeyUID, value) ==
  setLoadedByBusIn(loadedByBus, volumeKeyUID, value)

\* toast.update(toastID, ...) changes a toast that is on screen and does
\* nothing for one that is gone; the options given are merged into the
\* toast's options, so an onClose given earlier stays
showLoadingToast ==
  /\ IF toastID = Null
       THEN /\ toastID' = "toast"
            /\ toastOpen' = TRUE
            /\ toastContent' = "Loading"
            /\ toastOnClose' = FALSE
       ELSE /\ toastContent' = IF toastOpen THEN "Loading" ELSE toastContent
            /\ UNCHANGED << toastID, toastOpen, toastOnClose >>
  /\ UNCHANGED << loadingError, messages >>

\* toast.dismiss(toastID) removes the toast, running its onClose if it has one
showResults ==
  IF toastID = Null
    THEN UNCHANGED << loadingError, toastID, toastOpen, toastContent,
                      toastOnClose, messages >>
    ELSE /\ loadingError' = NoError
         /\ IF loadingError # NoError
              THEN /\ toastOpen' = FALSE
                   /\ toastID' = IF toastOpen /\ toastOnClose THEN Null ELSE toastID
                   /\ messages' = Append(messages, loadingError)
                   /\ UNCHANGED << toastContent, toastOnClose >>
              ELSE /\ toastContent' = IF toastOpen THEN "Done" ELSE toastContent
                   /\ toastOnClose' = IF toastOpen THEN TRUE ELSE toastOnClose
                   /\ UNCHANGED << toastID, toastOpen, messages >>

\* watch(loadingCount, ...): the job queued by a change of loadingCount runs;
\* the callback is called when the value differs from the last one seen
WatchFlush ==
  /\ pendingFlush
  /\ pendingFlush' = FALSE
  /\ barrier' = [ i \in Loads |-> FALSE ]
  /\ watched' = loadingCount
  /\ IF loadingCount = watched
       THEN UNCHANGED << loadingError, toastID, toastOpen, toastContent,
                         toastOnClose, messages >>
       ELSE IF loadingCount # 0 THEN showLoadingToast ELSE showResults
  /\ UNCHANGED << segmentGroupExtension, loadedByBus, loadingCount,
                  primarySelection, layout, loadVars, apiStarts, apiStops >>
  /\ UNCHANGED busVars

\* the success toast closes (its 3000 ms timeout, a click, its close button):
\* onClose
ToastClosed ==
  /\ toastOpen
  /\ toastContent = "Done"
  /\ toastOpen' = FALSE
  /\ toastID' = IF toastOnClose THEN Null ELSE toastID
  /\ UNCHANGED << segmentGroupExtension, loadedByBus, loadingCount, loadingError,
                  watched, pendingFlush, toastContent, toastOnClose, messages,
                  primarySelection, layout, loadVars, barrier, apiStarts,
                  apiStops >>
  /\ UNCHANGED busVars

\* ------------------------------------------------------ loadDataSources
\* what a load is called with: the results its import will deliver, and the
\* options of loadUrls (given = FALSE: loadUrls(params) or loadFiles(files))
Input(results, given, key, loadOptions_) ==
  [ sources |-> results,
    options |-> [ given |-> given, volumeKeySuffix |-> key,
                  loadOptions |-> loadOptions_ ] ]

NoOptions == << >>

\* faulty variant: the line names the outermost entry of the lineage
errorMessage_outermost(errResult) ==
  LET firstError == errResult.errors[1]
      name == firstError.inputDataStackTrace[Len(firstError.inputDataStackTrace)]
  IN  << "- ", name, ": ", firstError.message >>

\* "- <name>: <message>" for the first error of a failed source, named after
\* the innermost entry of its decode lineage
errorMessage(errResult) ==
  LET firstError == errResult.errors[1]
      name == firstError.inputDataStackTrace[1]
  IN  << "- ", name, ": ", firstError.message >>

failedError(errored) ==
  [ kind |-> "These files failed to load:",
    lines |-> [ k \in 1..Len(errored) |-> errorMessage(errored[k]) ] ]

rejectedError == [ kind |-> "import rejected", lines |-> << >> ]

\* loadUrls(params, options) / loadFiles(files) up to the await of
\* importDataSources: the session record is merged, the loading counter is
\* incremented and the import is started, for one of the given inputs
LoadUrlsCall(i, inputs) ==
  /\ pc[i] = "idle"
  /\ i > 1 => pc[i - 1] # "idle"
  /\ \E input \in inputs :
       /\ loadedByBus' =
            IF input.options.given
              THEN setLoadedByBus(input.options.volumeKeySuffix,
                                  input.options.loadOptions)
              ELSE loadedByBus
       /\ volumeKeySuffix' =
            [ volumeKeySuffix EXCEPT
                ![i] = IF input.options.given
                         THEN input.options.volumeKeySuffix ELSE "" ]
       /\ loadOptions' =
            [ loadOptions EXCEPT
                ![i] = IF input.options.given
                         THEN input.options.loadOptions ELSE << >> ]
       /\ sources' = [ sources EXCEPT ![i] = input.sources ]
       /\ loadingCount' = startLoading(loadingCount)
       /\ pendingFlush' = TRUE
       /\ barrier' = [ barrier EXCEPT ![i] = TRUE ]
       /\ calls' = [ calls EXCEPT ![i] = << Call("startLoading", "", "") >> ]
       /\ pc' = [ pc EXCEPT ![i] = "importing" ]
       /\ outcome' = [ outcome EXCEPT ![i] = "pending" ]
       /\ UNCHANGED << segmentGroupExtension, loadingError, watched, toastVars,
                       primarySelection, layout, primaryDataSource, apiStarts,
                       apiStops >>
  /\ UNCHANGED << busCall, pollVars, volumes >>

\* loadUrls called by the application itself: the bridge is not involved
LoadUrls(i, inputs) ==
  LoadUrlsCall(i, inputs) /\ UNCHANGED << bridgeVars, windowingVars, clientVars, partVars >>

\* faulty variant: every succeeded volume is selected as it comes
selectionCalls_perSource(primary, succeeded) ==
  LET loadable == filterLoadableDataSources(succeeded)
      volumeIDs == SelectSeq(loadable, isVolumeResult)
  IN  [ k \in 1..Len(volumeIDs) |->
          Call("setPrimarySelection", toDataSelection(volumeIDs[k]), "") ]
      \o IF isVolumeResult(primary)
           THEN loadLayers(primary, succeeded)
                \o loadSegmentations(primary, succeeded, segmentGroupExtension)
           ELSE << >>

\* faulty variant: whatever base data source was found is selected
selectionCalls_anyBase(primary, succeeded) ==
  IF primary # Undefined
    THEN << Call("setPrimarySelection", toDataSelection(primary), "") >>
         \o loadLayers(primary, succeeded)
         \o loadSegmentations(primary, succeeded, segmentGroupExtension)
    ELSE << >>

\* the store calls load() makes for its primary selection
selectionCalls(primary, succeeded) ==
  IF isVolumeResult(primary)
    THEN << Call("setPrimarySelection", toDataSelection(primary), "") >>
         \o loadLayers(primary, succeeded)
         \o loadSegmentations(primary, succeeded, segmentGroupExtension)
    ELSE << >>

\* faulty variant: a failed source stops load() from selecting anything
ImportResolve_abortOnFailure(i) ==
  /\ pc[i] = "importing"
  /\ ~barrier[i]
  /\ LET results == partitionResults(sources[i])
         succeeded == IF Len(results.errored) > 0 THEN << >>
                                                  ELSE results.succeeded
         errored == results.errored
         record == getLoadedByBus(volumeKeySuffix[i])
         layoutName == IF "layoutName" \in DOMAIN record
                         THEN record["layoutName"] ELSE ""
         layoutCalls == IF volumeKeySuffix[i] # "" /\ layoutName # ""
                          THEN << Call("setLayoutByName", layoutName, "") >>
                          ELSE << >>
         errorCalls == IF Len(errored) > 0
                         THEN << Call("setError", failedError(errored).kind, "") >>
                         ELSE << >>
     IN  /\ layout' = IF layoutCalls # << >> THEN layoutName ELSE layout
         /\ IF Len(succeeded) > 0
              THEN \E primary \in
                        findBaseDataSource(succeeded, segmentGroupExtension) :
                     /\ primaryDataSource' =
                          [ primaryDataSource EXCEPT ![i] = primary ]
                     /\ primarySelection' =
                          IF isVolumeResult(primary)
                            THEN toDataSelection(primary)
                            ELSE primarySelection
                     /\ calls' =
                          [ calls EXCEPT
                              ![i] = @ \o layoutCalls
                                       \o selectionCalls(primary, succeeded)
                                       \o errorCalls ]
              ELSE /\ UNCHANGED << primarySelection, primaryDataSource >>
                   /\ calls' = [ calls EXCEPT ![i] = @ \o layoutCalls \o errorCalls ]
         /\ loadingError' =
              IF Len(errored) > 0 THEN failedError(errored) ELSE loadingError
  /\ pc' = [ pc EXCEPT ![i] = "loaded" ]
  /\ outcome' = [ outcome EXCEPT ![i] = "fulfilled" ]
  /\ barrier' = [ barrier EXCEPT ![i] = pendingFlush ]
  /\ UNCHANGED << segmentGroupExtension, loadedByBus, loadingCount, watched,
                  pendingFlush, toastVars, sources, volumeKeySuffix, apiStarts,
                  apiStops >>
  /\ UNCHANGED busVars

\* faulty variant: an existing primary selection is kept
ImportResolve_keepsSelection(i) ==
  /\ pc[i] = "importing"
  /\ ~barrier[i]
  /\ LET results == partitionResults(sources[i])
         succeeded == results.succeeded
         errored == results.errored
         record == getLoadedByBus(volumeKeySuffix[i])
         layoutName == IF "layoutName" \in DOMAIN record
                         THEN record["layoutName"] ELSE ""
         layoutCalls == IF volumeKeySuffix[i] # "" /\ layoutName # ""
                          THEN << Call("setLayoutByName", layoutName, "") >>
                          ELSE << >>
         errorCalls == IF Len(errored) > 0
                         THEN << Call("setError", failedError(errored).kind, "") >>
                         ELSE << >>
     IN  /\ layout' = IF layoutCalls # << >> THEN layoutName ELSE layout
         /\ IF primarySelection = Null /\ Len(succeeded) > 0
              THEN \E primary \in
                        findBaseDataSource(succeeded, segmentGroupExtension) :
                     /\ primaryDataSource' =
                          [ primaryDataSource EXCEPT ![i] = primary ]
                     /\ primarySelection' =
                          IF isVolumeResult(primary)
                            THEN toDataSelection(primary)
                            ELSE primarySelection
                     /\ calls' =
                          [ calls EXCEPT
                              ![i] = @ \o layoutCalls
                                       \o selectionCalls(primary, succeeded)
                                       \o errorCalls ]
              ELSE /\ UNCHANGED << primarySelection, primaryDataSource >>
                   /\ calls' = [ calls EXCEPT ![i] = @ \o layoutCalls \o errorCalls ]
         /\ loadingError' =
              IF Len(errored) > 0 THEN failedError(errored) ELSE loadingError
  /\ pc' = [ pc EXCEPT ![i] = "loaded" ]
  /\ outcome' = [ outcome EXCEPT ![i] = "fulfilled" ]
  /\ barrier' = [ barrier EXCEPT ![i] = pendingFlush ]
  /\ UNCHANGED << segmentGroupExtension, loadedByBus, loadingCount, watched,
                  pendingFlush, toastVars, sources, volumeKeySuffix, apiStarts,
                  apiStops >>
  /\ UNCHANGED busVars

\* importDataSources resolved: load() runs to its end
ImportResolve(i) ==
  /\ pc[i] = "importing"
  /\ ~barrier[i]
  /\ LET results == partitionResults(sources[i])
         succeeded == results.succeeded
         errored == results.errored
         record == getLoadedByBus(volumeKeySuffix[i])
         layoutName == IF "layoutName" \in DOMAIN record
                         THEN record["layoutName"] ELSE ""
         layoutCalls == IF volumeKeySuffix[i] # "" /\ layoutName # ""
                          THEN << Call("setLayoutByName", layoutName, "") >>
                          ELSE << >>
         errorCalls == IF Len(errored) > 0
                         THEN << Call("setError", failedError(errored).kind, "") >>
                         ELSE << >>
     IN  /\ layout' = IF layoutCalls # << >> THEN layoutName ELSE layout
         /\ IF Len(succeeded) > 0
              THEN \E primary \in
                        findBaseDataSource(succeeded, segmentGroupExtension) :
                     /\ primaryDataSource' =
                          [ primaryDataSource EXCEPT ![i] = primary ]
                     /\ primarySelection' =
                          IF isVolumeResult(primary)
                            THEN toDataSelection(primary)
                            ELSE primarySelection
                     /\ calls' =
                          [ calls EXCEPT
                              ![i] = @ \o layoutCalls
                                       \o selectionCalls(primary, succeeded)
                                       \o errorCalls ]
              ELSE /\ UNCHANGED << primarySelection, primaryDataSource >>
                   /\ calls' = [ calls EXCEPT ![i] = @ \o layoutCalls \o errorCalls ]
         /\ loadingError' =
              IF Len(errored) > 0 THEN failedError(errored) ELSE loadingError
  /\ pc' = [ pc EXCEPT ![i] = "loaded" ]
  /\ outcome' = [ outcome EXCEPT ![i] = "fulfilled" ]
  /\ barrier' = [ barrier EXCEPT ![i] = pendingFlush ]
  /\ UNCHANGED << segmentGroupExtension, loadedByBus, loadingCount, watched,
                  pendingFlush, toastVars, sources, volumeKeySuffix, apiStarts,
                  apiStops >>
  /\ UNCHANGED busVars

\* faulty variant: a failed import clears the selection
ImportReject_clearsSelection(i) ==
  /\ pc[i] = "importing"
  /\ ~barrier[i]
  /\ loadingError' = [ kind |-> "import rejected", lines |-> << >> ]
  /\ primarySelection' = "null"
  /\ calls' = [ calls EXCEPT ![i] = Append(@, Call("setError", "import rejected", "")) ]
  /\ pc' = [ pc EXCEPT ![i] = "loaded" ]
  /\ outcome' = [ outcome EXCEPT ![i] = "rejected" ]
  /\ barrier' = [ barrier EXCEPT ![i] = pendingFlush ]
  /\ UNCHANGED << segmentGroupExtension, loadedByBus, loadingCount, watched,
                  pendingFlush, toastVars, layout, sources, volumeKeySuffix,
                  primaryDataSource, apiStarts, apiStops >>
  /\ UNCHANGED busVars

\* importDataSources rejected: the catch block of load()
ImportReject(i) ==
  /\ pc[i] = "importing"
  /\ ~barrier[i]
  /\ loadingError' = rejectedError
  /\ calls' = [ calls EXCEPT ![i] = Append(@, Call("setError", rejectedError.kind, "")) ]
  /\ pc' = [ pc EXCEPT ![i] = "loaded" ]
  /\ outcome' = [ outcome EXCEPT ![i] = "rejected" ]
  /\ barrier' = [ barrier EXCEPT ![i] = pendingFlush ]
  /\ UNCHANGED << segmentGroupExtension, loadedByBus, loadingCount, watched,
                  pendingFlush, toastVars, primarySelection, layout, sources,
                  volumeKeySuffix, primaryDataSource, apiStarts, apiStops >>
  /\ UNCHANGED busVars

\* wrapWithLoading: the finally block, once load() has returned
Finally(i) ==
  /\ pc[i] = "loaded"
  /\ ~barrier[i]
  /\ loadingCount' = stopLoading(loadingCount)
  /\ pendingFlush' = (pendingFlush \/ loadingCount' # loadingCount)
  /\ calls' = [ calls EXCEPT ![i] = Append(@, Call("stopLoading", "", "")) ]
  /\ pc' = [ pc EXCEPT ![i] = "finished" ]
  /\ UNCHANGED << segmentGroupExtension, loadedByBus, loadingError, watched,
                  toastVars, primarySelection, layout, outcome, sources,
                  volumeKeySuffix, barrier, primaryDataSource, apiStarts,
                  apiStops >>
  /\ UNCHANGED busVars

\* the store's startLoading / stopLoading called directly
StartLoadingCall ==
  /\ apiStarts + apiStops < MaxApiCalls
  /\ apiStarts' = apiStarts + 1
  /\ loadingCount' = startLoading(loadingCount)
  /\ pendingFlush' = TRUE
  /\ UNCHANGED << segmentGroupExtension, loadedByBus, loadingError, watched,
                  toastVars, primarySelection, layout, loadVars, barrier,
                  apiStops >>
  /\ UNCHANGED busVars

StopLoadingCall ==
  /\ apiStarts + apiStops < MaxApiCalls
  /\ apiStops' = apiStops + 1
  /\ loadingCount' = stopLoading(loadingCount)
  /\ pendingFlush' = (pendingFlush \/ loadingCount' # loadingCount)
  /\ UNCHANGED << segmentGroupExtension, loadedByBus, loadingError, watched,
                  toastVars, primarySelection, layout, loadVars, barrier,
                  apiStarts >>
  /\ UNCHANGED busVars

\* ------------------------------------------------- loads from the bus
\* loadUrls(params, options) with a dicomWebURL, a study and a series UID: up
\* to the await of fetchInstance / fetchSeries
FetchStart(i, inputs) ==
  /\ pc[i] = "idle"
  /\ i > 1 => pc[i - 1] # "idle"
  /\ \E input \in inputs :
       /\ volumeKeySuffix' =
            [ volumeKeySuffix EXCEPT ![i] = input.options.volumeKeySuffix ]
       /\ loadOptions' = [ loadOptions EXCEPT ![i] = input.options.loadOptions ]
       /\ sources' = [ sources EXCEPT ![i] = input.sources ]
       /\ pc' = [ pc EXCEPT ![i] = "fetching" ]
  /\ UNCHANGED << segmentGroupExtension, loadedByBus, loadingCount, loadingError,
                  watched, pendingFlush, toastVars, primarySelection, layout,
                  outcome, calls, primaryDataSource, barrier, apiStarts,
                  apiStops, busCall, pollVars, volumes, bridgeVars,
                  windowingVars, clientVars, partVars >>

\* faulty variant: a rejected fetch is recorded as the load's error
FetchSettle_recordsError(i) ==
  /\ pc[i] = "fetching"
  /\ \E fetched \in BOOLEAN :
       /\ sources' = [ sources EXCEPT ![i] = IF fetched THEN @ ELSE << >> ]
       /\ loadingError' = IF fetched THEN loadingError ELSE rejectedError
  /\ loadedByBus' = setLoadedByBus(volumeKeySuffix[i], loadOptions[i])
  /\ loadingCount' = startLoading(loadingCount)
  /\ pendingFlush' = TRUE
  /\ barrier' = [ barrier EXCEPT ![i] = TRUE ]
  /\ calls' = [ calls EXCEPT ![i] = << Call("startLoading", "", "") >> ]
  /\ pc' = [ pc EXCEPT ![i] = "importing" ]
  /\ outcome' = [ outcome EXCEPT ![i] = "pending" ]
  /\ UNCHANGED << segmentGroupExtension, watched, toastVars,
                  primarySelection, layout, volumeKeySuffix, primaryDataSource,
                  apiStarts, apiStops, busCall, loadOptions, pollVars, volumes,
                  bridgeVars, windowingVars, clientVars, partVars >>

\* the fetch settled (a rejected fetch is logged and leaves no files):
\* onBeforeLoadedByBus() && loadFiles(dicomWebFiles, volumeKeySuffix), up to
\* the await of importDataSources
FetchSettle(i) ==
  /\ pc[i] = "fetching"
  /\ \E fetched \in BOOLEAN :
       sources' = [ sources EXCEPT ![i] = IF fetched THEN @ ELSE << >> ]
  /\ loadedByBus' = setLoadedByBus(volumeKeySuffix[i], loadOptions[i])
  /\ loadingCount' = startLoading(loadingCount)
  /\ pendingFlush' = TRUE
  /\ barrier' = [ barrier EXCEPT ![i] = TRUE ]
  /\ calls' = [ calls EXCEPT ![i] = << Call("startLoading", "", "") >> ]
  /\ pc' = [ pc EXCEPT ![i] = "importing" ]
  /\ outcome' = [ outcome EXCEPT ![i] = "pending" ]
  /\ UNCHANGED << segmentGroupExtension, loadingError, watched, toastVars,
                  primarySelection, layout, volumeKeySuffix, primaryDataSource,
                  apiStarts, apiStops, busCall, loadOptions, pollVars, volumes,
                  bridgeVars, windowingVars, clientVars, partVars >>

\* tryGetImageID's retryCount
RetryCount == 100

\* getImageID(selection): the image ID, once it is there
getImageID(selection_) == { Undefined, selection_ }

\* { ...getLoadedByBus(volumeKeySuffix), imageID }
withImageID(record, id) ==
  [ f \in DOMAIN record \cup { "imageID" } |->
      IF f = "imageID" THEN id ELSE record[f] ]

\* .then(onAfterLoadedByBus) of a load with a volumeKeySuffix: the selection
\* is read and, when there is one, tryGetImageID makes its first attempt
AfterLoadedByBus(i) ==
  /\ pc[i] = "finished"
  /\ volumeKeySuffix[i] # ""
  /\ selection' = [ selection EXCEPT ![i] = primarySelection ]
  /\ IF primarySelection # Null
       THEN /\ \E id \in getImageID(primarySelection) :
                 imageID' = [ imageID EXCEPT ![i] = id ]
            /\ retryCount' = [ retryCount EXCEPT ![i] = RetryCount ]
            /\ calls' = [ calls EXCEPT
                            ![i] = Append(@, Call("getImageID", primarySelection, "")) ]
            /\ pc' = [ pc EXCEPT ![i] = "polling" ]
       ELSE /\ pc' = [ pc EXCEPT ![i] = "done" ]
            /\ UNCHANGED << imageID, retryCount, calls >>
  /\ UNCHANGED << segmentGroupExtension, loadedByBus, loadingCount, loadingError,
                  watched, pendingFlush, toastVars, primarySelection, layout,
                  outcome, sources, volumeKeySuffix, primaryDataSource, barrier,
                  apiStarts, apiStops, busCall, loadOptions, volumes,
                  bridgeVars, windowingVars, clientVars, partVars >>

\* faulty variant: the loop does not count its attempts down
PollTimer_noCountdown(i) ==
  /\ pc[i] = "polling"
  /\ retryCount' = retryCount
  /\ IF imageID[i] = Undefined /\ retryCount'[i] > 0
       THEN /\ \E id \in getImageID(selection[i]) :
                 imageID' = [ imageID EXCEPT ![i] = id ]
            /\ calls' = [ calls EXCEPT
                            ![i] = Append(@, Call("getImageID", selection[i], "")) ]
            /\ UNCHANGED << pc, loadedByBus >>
       ELSE /\ pc' = [ pc EXCEPT ![i] = "done" ]
            /\ IF imageID[i] # Undefined
                 THEN /\ loadedByBus' =
                           setLoadedByBus(volumeKeySuffix[i],
                                          withImageID(getLoadedByBus(volumeKeySuffix[i]),
                                                      imageID[i]))
                      /\ calls' =
                           [ calls EXCEPT
                               ![i] = Append(@, Call("setLoadedByBus",
                                                     volumeKeySuffix[i],
                                                     imageID[i])) ]
                 ELSE UNCHANGED << loadedByBus, calls >>
            /\ UNCHANGED imageID
  /\ UNCHANGED << segmentGroupExtension, loadingCount, loadingError, watched,
                  pendingFlush, toastVars, primarySelection, layout, outcome,
                  sources, volumeKeySuffix, primaryDataSource, barrier,
                  apiStarts, apiStops, busCall, loadOptions, selection, volumes,
                  bridgeVars, windowingVars, clientVars, partVars >>

\* the 10 ms timer of tryGetImageID fired: retryCount--, then either the next
\* attempt, or the loop ends and an image ID found is merged into the record
PollTimer(i) ==
  /\ pc[i] = "polling"
  /\ retryCount' = [ retryCount EXCEPT ![i] = @ - 1 ]
  /\ IF imageID[i] = Undefined /\ retryCount'[i] > 0
       THEN /\ \E id \in getImageID(selection[i]) :
                 imageID' = [ imageID EXCEPT ![i] = id ]
            /\ calls' = [ calls EXCEPT
                            ![i] = Append(@, Call("getImageID", selection[i], "")) ]
            /\ UNCHANGED << pc, loadedByBus >>
       ELSE /\ pc' = [ pc EXCEPT ![i] = "done" ]
            /\ IF imageID[i] # Undefined
                 THEN /\ loadedByBus' =
                           setLoadedByBus(volumeKeySuffix[i],
                                          withImageID(getLoadedByBus(volumeKeySuffix[i]),
                                                      imageID[i]))
                      /\ calls' =
                           [ calls EXCEPT
                               ![i] = Append(@, Call("setLoadedByBus",
                                                     volumeKeySuffix[i],
                                                     imageID[i])) ]
                 ELSE UNCHANGED << loadedByBus, calls >>
            /\ UNCHANGED imageID
  /\ UNCHANGED << segmentGroupExtension, loadingCount, loadingError, watched,
                  pendingFlush, toastVars, primarySelection, layout, outcome,
                  sources, volumeKeySuffix, primaryDataSource, barrier,
                  apiStarts, apiStops, busCall, loadOptions, selection, volumes,
                  bridgeVars, windowingVars, clientVars, partVars >>

\* ------------------------------------------------ window-level preset
\* the view IDs a component is made for
ViewIDs == { "Axial", "Coronal" }

\* layoutName.includes(viewId)
includes(layoutName, viewId) ==
  << layoutName, viewId >> \in { << "Axial Only", "Axial" >> }

\* a volume imported for a key gets its entry in the record's volumes, not yet
\* window-levelled, under the layout name of the record
RecordVolume(dataID) ==
  /\ dataID \notin DOMAIN volumes
  /\ \E i \in Loads :
       /\ outcome[i] = "fulfilled"
       /\ volumeKeySuffix[i] # ""
       /\ primaryDataSource[i] = dataID
       /\ dataType(dataID) = "dicom"
       /\ LET record == getLoadedByBus(volumeKeySuffix[i])
          IN  volumes' =
                (dataID :> [ key |-> volumeKeySuffix[i],
                             layoutName |-> IF "layoutName" \in DOMAIN record
                                              THEN record["layoutName"] ELSE "",
                             wlConfiged |-> FALSE ]) @@ volumes
  /\ UNCHANGED << notifyVars, loadedByBus, busCall, loadOptions, pollVars,
                  bridgeVars, windowingVars, clientVars, partVars >>

\* the 'gotimage' handler of a view: the first window level of the volume's
\* tags is applied once, and the volume is marked
useFirstTagVal(dataID, viewIdVal, hasWindowLevel) ==
  /\ dataID \in DOMAIN volumes
  /\ LET vol == volumes[dataID]
     IN  volumes' =
           IF /\ ~vol.wlConfiged
              /\ includes(vol.layoutName, viewIdVal)
              /\ dataID \in DOMAIN DicomCatalog
              /\ hasWindowLevel
             THEN [ volumes EXCEPT ![dataID].wlConfiged = TRUE ]
             ELSE volumes
  /\ UNCHANGED << notifyVars, loadedByBus, busCall, loadOptions, pollVars,
                  bridgeVars, windowingVars, clientVars, partVars >>

\* --------------------------------------------------------- the bus bridge
MaxMounts == 2
MaxPorts == 2
Instances == 1..MaxMounts
Ports == 1..MaxPorts

\* the events the emitter carries for the bridge
Events == { "load", "unload", "unselect", "savesegmentation", "slicing", "close" }

\* the query of the page: a project, a pipeline and its manual node
DefaultQuery ==
  [ projectId |-> "p", pipelineId |-> "q", manualNodeId |-> "m", uid |-> "u" ]
\* the same without the pipeline, and without its manual node
Queries ==
  { DefaultQuery, [ DefaultQuery EXCEPT !.pipelineId = "" ],
    [ DefaultQuery EXCEPT !.manualNodeId = "" ] }
\* what the page's window is and what its URL says
pageVars == << embedded, query >>

\* `volview-${projectId || datasetId || uid || ...}`
peerId == "volview-p"
\* peerId.replace('volview-', 'tab-project-')
tabPeerId == "tab-project-p"
\* `comfyui-${pipelineId}`
comfyPeerId == "comfyui-q"
Peers == { peerId, tabPeerId, comfyPeerId }

\* the handlers App.vue hands to useEventBus
handlers == { "load", "unload", "unselect" }

\* a port's closures: the useEventBus call, peer1 and peer2 they captured, the
\* key onclose deletes, and whether onmessage re-emits
NoHandlers ==
  [ instance |-> 0, peer1 |-> "", peer2 |-> "", key |-> "", relays |-> FALSE ]
NoPayload == [ none |-> TRUE ]
Labelmap == [ data |-> [ path |-> "seg.nii" ] ]
Slice == [ slice |-> 7 ]
NoEvent ==
  [ via |-> "none", port |-> 0, type |-> "", received |-> NoPayload,
    payload |-> NoPayload, emitted |-> FALSE, invoked |-> 0, posted |-> << >>,
    thrown |-> FALSE ]

\* emitter.on(type, handler), for the handler of the useEventBus call g
on(registry, types, g) ==
  [ e \in Events |-> IF e \in types THEN Append(registry[e], g) ELSE registry[e] ]

\* a sequence without its first element equal to g, if there is one
RemoveFirst(seq, g) ==
  IF \E k \in 1..Len(seq) : seq[k] = g
    THEN LET at == CHOOSE k \in 1..Len(seq) :
                     seq[k] = g /\ \A j \in 1..(k - 1) : seq[j] # g
         IN  SubSeq(seq, 1, at - 1) \o SubSeq(seq, at + 1, Len(seq))
    ELSE seq

\* if (window.$electron && projectId) window.$electron.requestMessagePort(
\* { peer1: peerId.replace('volview-', 'tab-project-'), peer2: peerId }), as
\* made by the useEventBus call g once window.$electron is there
requestMessagePort(g) ==
  IF query.projectId # ""
    THEN << [ instance |-> g, peer1 |-> tabPeerId, peer2 |-> peerId ] >>
    ELSE << >>

\* faulty variant: the handlers of 'slicing' and 'close' stay registered
off_leaksClosures(registry, types, g) ==
  [ e \in Events |->
      IF e \in types \ { "slicing", "close" }
        THEN RemoveFirst(registry[e], g) ELSE registry[e] ]

\* emitter.off(type, handler), for the handler of the useEventBus call g
off(registry, types, g) ==
  [ e \in Events |->
      IF e \in types THEN RemoveFirst(registry[e], g) ELSE registry[e] ]

\* the payload of a 'created-segmentation' message
envelope(payload) ==
  [ pipelineId |-> query.pipelineId, manualNodeId |-> query.manualNodeId,
    oid |-> query.uid, labelmap |-> payload.data.path ]

\* faulty variant: a pipeline without a manual node forwards as well
postedBy_anyNode(g, type, payload) ==
  CASE type = "savesegmentation" ->
         IF query.pipelineId # "" /\
            "data" \in DOMAIN payload
           THEN IF ports[g][comfyPeerId] # 0
                  THEN << [ to |-> ports[g][comfyPeerId],
                            type |-> "created-segmentation",
                            payload |-> envelope(payload) ] >>
                  ELSE IF embedded = "yes"
                         THEN << [ to |-> 0, type |-> "created-segmentation",
                                   payload |-> envelope(payload) ] >>
                         ELSE << >>
           ELSE << >>
    [] type = "slicing" ->
         IF ports[g][tabPeerId] # 0
           THEN << [ to |-> ports[g][tabPeerId], type |-> "slicing",
                     payload |-> payload ] >>
           ELSE << >>
    [] type = "close" ->
         IF ports[g][tabPeerId] # 0
           THEN << [ to |-> ports[g][tabPeerId], type |-> "close" ] >>
           ELSE << >>
    [] OTHER -> << >>

\* faulty variant: 'close' goes to every registered port
postedBy_closeAll(g, type, payload) ==
  CASE type = "savesegmentation" ->
         IF query.pipelineId # "" /\ query.manualNodeId # "" /\
            "data" \in DOMAIN payload
           THEN IF ports[g][comfyPeerId] # 0
                  THEN << [ to |-> ports[g][comfyPeerId],
                            type |-> "created-segmentation",
                            payload |-> envelope(payload) ] >>
                  ELSE IF embedded = "yes"
                         THEN << [ to |-> 0, type |-> "created-segmentation",
                                   payload |-> envelope(payload) ] >>
                         ELSE << >>
           ELSE << >>
    [] type = "slicing" ->
         IF ports[g][tabPeerId] # 0
           THEN << [ to |-> ports[g][tabPeerId], type |-> "slicing",
                     payload |-> payload ] >>
           ELSE << >>
    [] type = "close" ->
         LET open == { peer \in Peers : ports[g][peer] # 0 }
             RECURSIVE each(_)
             each(S) ==
               IF S = { } THEN << >>
               ELSE LET peer == CHOOSE x \in S : TRUE
                    IN  << [ to |-> ports[g][peer], type |-> "close" ] >>
                        \o each(S \ { peer })
         IN  each(open)
    [] OTHER -> << >>

\* what the handler of the useEventBus call g posts for an event
postedBy(g, type, payload) ==
  CASE type = "savesegmentation" ->
         IF query.pipelineId # "" /\ query.manualNodeId # "" /\
            "data" \in DOMAIN payload
           THEN IF ports[g][comfyPeerId] # 0
                  THEN << [ to |-> ports[g][comfyPeerId],
                            type |-> "created-segmentation",
                            payload |-> envelope(payload) ] >>
                  ELSE IF embedded = "yes"
                         THEN << [ to |-> 0, type |-> "created-segmentation",
                                   payload |-> envelope(payload) ] >>
                         ELSE << >>
           ELSE << >>
    [] type = "slicing" ->
         IF ports[g][tabPeerId] # 0
           THEN << [ to |-> ports[g][tabPeerId], type |-> "slicing",
                     payload |-> payload ] >>
           ELSE << >>
    [] type = "close" ->
         IF ports[g][tabPeerId] # 0
           THEN << [ to |-> ports[g][tabPeerId], type |-> "close" ] >>
           ELSE << >>
    [] OTHER -> << >>

RECURSIVE postedByAll(_, _, _)
postedByAll(owners, type, payload) ==
  IF owners = << >> THEN << >>
  ELSE postedBy(Head(owners), type, payload)
       \o postedByAll(Tail(owners), type, payload)

\* the handlers of App.vue run for an emitted event: onload calls loadUrls
\* when the payload has urlParams.urls, onunselect clears the primary
\* selection, onunload removes the bus data from the dataset store
deliver(type, payload) ==
  IF type = "load" /\ emitter[type] # << >> /\ "sources" \in DOMAIN payload
    THEN /\ \E i \in Loads : LoadUrlsCall(i, { payload })
         /\ UNCHANGED << windowingVars, clientVars, partVars >>
    ELSE /\ primarySelection' =
              IF type = "unselect" /\ emitter[type] # << >>
                THEN Null ELSE primarySelection
         /\ UNCHANGED << segmentGroupExtension, loadingCount, loadingError,
                         watched, pendingFlush, toastVars, layout, loadVars,
                         barrier, apiStarts, apiStops, loadedByBus, busCall,
                         loadOptions, pollVars, volumes, windowingVars, clientVars, partVars >>

\* emitter.emit(type, payload): every registered handler runs once per
\* registration
emit(via, port, received, type, payload) ==
  /\ lastEvent' =
       [ via |-> via, port |-> port, type |-> type, received |-> received,
         payload |-> payload, emitted |-> TRUE,
         invoked |-> Len(emitter[type]),
         posted |-> postedByAll(emitter[type], type, payload),
         thrown |-> FALSE ]
  /\ deliver(type, payload)

nonBridgeVars ==
  << notifyVars, loadedByBus, busCall, loadOptions, pollVars, volumes,
     windowingVars, clientVars, partVars >>

\* faulty variant: the 'message' listener is installed in a frame as well
Mount_alwaysListens(queries) ==
  /\ ~mounted
  /\ instance < MaxMounts
  /\ instance' = instance + 1
  /\ mounted' = TRUE
  /\ windowBus' = TRUE
  /\ emitter' = on(emitter, handlers \cup { "savesegmentation", "slicing", "close" },
                   instance + 1)
  /\ query' \in IF instance = 0 THEN queries ELSE { query }
  /\ \E parent \in IF embedded = "unread" THEN { "yes", "no" } ELSE { embedded } :
       /\ embedded' = parent
       /\ IF FALSE
            THEN /\ lastEvent' =
                      [ NoEvent EXCEPT
                          !.via = "mount",
                          !.posted = << [ to |-> 0, type |-> "volview:LOAD" ] >> ]
                 /\ UNCHANGED << listeners, waiting, requested >>
            ELSE /\ listeners' = Append(listeners, instance + 1)
                 /\ lastEvent' = [ NoEvent EXCEPT !.via = "mount" ]
                 /\ IF electron
                      THEN /\ requested' =
                                requested \o requestMessagePort(instance + 1)
                           /\ UNCHANGED waiting
                      ELSE /\ waiting' = waiting \cup { instance + 1 }
                           /\ UNCHANGED requested
  /\ UNCHANGED << ports, portHandlers, portOpen, portCount, electron >>
  /\ UNCHANGED nonBridgeVars

\* useEventBus(handlers, loadDataStore) and its onMounted, up to the first
\* await: window.$bus is set, the handlers are registered, and either the
\* parent is told or the 'message' listener is installed and the host awaited
Mount(queries) ==
  /\ ~mounted
  /\ instance < MaxMounts
  /\ instance' = instance + 1
  /\ mounted' = TRUE
  /\ windowBus' = TRUE
  /\ emitter' = on(emitter, handlers \cup { "savesegmentation", "slicing", "close" },
                   instance + 1)
  /\ query' \in IF instance = 0 THEN queries ELSE { query }
  /\ \E parent \in IF embedded = "unread" THEN { "yes", "no" } ELSE { embedded } :
       /\ embedded' = parent
       /\ IF parent = "yes"
            THEN /\ lastEvent' =
                      [ NoEvent EXCEPT
                          !.via = "mount",
                          !.posted = << [ to |-> 0, type |-> "volview:LOAD" ] >> ]
                 /\ UNCHANGED << listeners, waiting, requested >>
            ELSE /\ listeners' = Append(listeners, instance + 1)
                 /\ lastEvent' = [ NoEvent EXCEPT !.via = "mount" ]
                 /\ IF electron
                      THEN /\ requested' =
                                requested \o requestMessagePort(instance + 1)
                           /\ UNCHANGED waiting
                      ELSE /\ waiting' = waiting \cup { instance + 1 }
                           /\ UNCHANGED requested
  /\ UNCHANGED << ports, portHandlers, portOpen, portCount, electron >>
  /\ UNCHANGED nonBridgeVars

\* onUnmounted: window.$bus is deleted and every handler deregistered
Unmount ==
  /\ mounted
  /\ mounted' = FALSE
  /\ windowBus' = FALSE
  /\ emitter' = off(emitter, handlers \cup { "savesegmentation", "slicing", "close" },
                    instance)
  /\ lastEvent' = [ NoEvent EXCEPT !.via = "unmount" ]
  /\ UNCHANGED << instance, listeners, ports, portHandlers, portOpen, portCount,
                  pageVars, electron, waiting, requested >>
  /\ UNCHANGED nonBridgeVars

\* the host shell sets window.$electron
ElectronReady ==
  /\ ~electron
  /\ electron' = TRUE
  /\ UNCHANGED << mounted, instance, windowBus, emitter, listeners, ports,
                  portHandlers, portOpen, portCount, pageVars, waiting,
                  requested, lastEvent >>
  /\ UNCHANGED nonBridgeVars

\* faulty variant: the flag is awaited once, not until it is set
HostTimer_once(g) ==
  /\ g \in waiting
  /\ waiting' = waiting \ { g }
  /\ requested' = requested \o requestMessagePort(g)
  /\ UNCHANGED << mounted, instance, windowBus, emitter, listeners, ports,
                  portHandlers, portOpen, portCount, pageVars, electron,
                  lastEvent >>
  /\ UNCHANGED nonBridgeVars

\* the 1000 ms timer of onMounted's wait fired: the loop ends once
\* window.$electron is there, and the port is requested
HostTimer(g) ==
  /\ g \in waiting
  /\ IF electron
       THEN /\ waiting' = waiting \ { g }
            /\ requested' = requested \o requestMessagePort(g)
       ELSE UNCHANGED << waiting, requested >>
  /\ UNCHANGED << mounted, instance, windowBus, emitter, listeners, ports,
                  portHandlers, portOpen, portCount, pageVars, electron,
                  lastEvent >>
  /\ UNCHANGED nonBridgeVars

RECURSIVE storePort(_, _, _, _)
\* every 'message' listener stores the port in the ports of its own
\* useEventBus call
storePort(registry, owners, key, port) ==
  IF owners = << >> THEN registry
  ELSE storePort([ registry EXCEPT ![Head(owners)][key] = port ],
                 Tail(owners), key, port)

\* faulty variant: the port is stored under the ID the message names first
otherPeer_first(peer1, peer2) == peer1

\* the key a 'response-message-port' message stores its port under: the
\* peer that is not the local one
otherPeer(peer1, peer2) == IF peerId = peer1 THEN peer2 ELSE peer1

\* faulty variant: the handler installed last is that of the peer1 branch
relays_peer1(peer1, peer2) == FALSE

\* the onmessage handler left on the port re-emits: the one of the peer2
\* branch, which is installed last
relays(peer1, peer2) == peerId = peer2

\* a 'response-message-port' message from this window reaches the 'message'
\* listeners, with a fresh port
Handshake(peer1, peer2) ==
  /\ listeners # << >>
  /\ portCount < MaxPorts
  /\ portCount' = portCount + 1
  /\ IF peerId = peer1 \/ peerId = peer2
       THEN /\ ports' = storePort(ports, listeners, otherPeer(peer1, peer2),
                                  portCount + 1)
            /\ portHandlers' =
                 [ portHandlers EXCEPT
                     ![portCount + 1] =
                        [ instance |-> listeners[Len(listeners)],
                          peer1 |-> peer1, peer2 |-> peer2,
                          key |-> otherPeer(peer1, peer2),
                          relays |-> relays(peer1, peer2) ] ]
            /\ portOpen' = [ portOpen EXCEPT ![portCount + 1] = TRUE ]
       ELSE UNCHANGED << ports, portHandlers, portOpen >>
  /\ lastEvent' =
       [ NoEvent EXCEPT !.via = "window", !.type = "response-message-port",
                        !.received = [ peer1 |-> peer1, peer2 |-> peer2 ] ]
  /\ UNCHANGED << mounted, instance, windowBus, emitter, listeners, pageVars,
                  electron, waiting, requested >>
  /\ UNCHANGED nonBridgeVars

\* port.onclose: delete ports[key], for the key of the closure
PortClose(port) ==
  /\ portOpen[port]
  /\ portOpen' = [ portOpen EXCEPT ![port] = FALSE ]
  /\ ports' = [ ports EXCEPT
                  ![portHandlers[port].instance][portHandlers[port].key] = 0 ]
  /\ lastEvent' = [ NoEvent EXCEPT !.via = "port", !.port = port,
                                   !.type = "close" ]
  /\ UNCHANGED << mounted, instance, windowBus, emitter, listeners, portHandlers,
                  portCount, pageVars, electron, waiting, requested >>
  /\ UNCHANGED nonBridgeVars

\* the message types a peer sends over a port
MessageTypes == { "load", "unload", "unselect", "ping" }

\* port.onmessage: the handler of the peer1 branch logs the payload; that of
\* the peer2 branch emits 'load' with the payload and 'unload', 'unselect'
\* without, on window.$bus.emitter
PortMessage(port, type, payload) ==
  /\ portOpen[port]
  /\ IF portHandlers[port].relays /\ type \in { "load", "unload", "unselect" }
       THEN IF windowBus
              THEN emit("port", port, payload, type,
                        IF type = "load" THEN payload ELSE NoPayload)
              ELSE /\ lastEvent' =
                        [ NoEvent EXCEPT !.via = "port", !.port = port,
                                         !.type = type, !.received = payload,
                                         !.thrown = TRUE ]
                   /\ UNCHANGED nonBridgeVars
       ELSE /\ lastEvent' =
                 [ NoEvent EXCEPT !.via = "port", !.port = port, !.type = type,
                                  !.received = payload ]
            /\ UNCHANGED nonBridgeVars
  /\ UNCHANGED << mounted, instance, windowBus, emitter, listeners, ports,
                  portHandlers, portOpen, portCount, pageVars, electron, waiting,
                  requested >>

\* emitter.emit(type, payload) called in this window
Emit(type, payload) ==
  /\ emit("emitter", 0, NoPayload, type, payload)
  /\ UNCHANGED << mounted, instance, windowBus, emitter, listeners, ports,
                  portHandlers, portOpen, portCount, pageVars, electron, waiting,
                  requested >>

\* ------------------------------------------------ the windowing initializer
\* image.getPointData().getScalars().getRange()
ScalarRange == << 0, 100 >>
\* autoRangeValues: per percentile preset, the range that clips it
autoRangeValues == [ Default |-> << 5, 95 >>, Wide |-> << 1, 99 >> ]
WL_AUTO_DEFAULT == "Default"
\* what the DICOM tags may give as the first window level (none; one; one
\* whose width is 0) and what the runtime may force (nothing; a window level)
TagValues ==
  { << >>, << [ width |-> 40, level |-> 50 ] >>, << [ width |-> 0, level |-> 50 ] >> }
ForcedValues == { << >>, << [ width |-> 20, level |-> 30 ] >> }

\* the windowing store's config of a view and image before any update
defaultWindowLevelConfig ==
  [ auto |-> WL_AUTO_DEFAULT, min |-> 0, max |-> 1,
    preset |-> [ width |-> 0, level |-> 0 ], width |-> 1, level |-> 0 ]

\* store.updateConfig(viewID, imageID, patch): the patch is merged into the
\* config, which is created when there is none
updateConfig(config, patch) ==
  LET old == IF config = << >> THEN defaultWindowLevelConfig ELSE config[1]
  IN  << [ f \in DOMAIN old |-> IF f \in DOMAIN patch THEN patch[f] ELSE old[f] ] >>

\* store.resetWindowLevel(viewID, imageID): width and level are set from the
\* preset when the config has one, else from min and max
resetWindowLevel(config) ==
  IF config = << >> THEN config
  ELSE LET c == config[1]
       IN  IF c.preset.width # 0
             THEN << [ c EXCEPT !.width = c.preset.width,
                                !.level = c.preset.level ] >>
             ELSE << [ c EXCEPT !.width = c.max - c.min,
                                !.level = (c.max + c.min) \div 2 ] >>

WlCall(op, patch) == [ op |-> op, patch |-> patch ]
NoPatch == [ none |-> TRUE ]

\* the store calls applied in order to a config
RECURSIVE applyCalls(_, _)
applyCalls(config, made) ==
  IF made = << >> THEN config
  ELSE applyCalls(IF Head(made).op = "updateConfig"
                    THEN updateConfig(config, Head(made).patch)
                    ELSE resetWindowLevel(config),
                  Tail(made))

\* watchImmediate(windowConfig, ...): without a config and with an image, the
\* config is seeded with the full scalar range and reset
onWindowConfig(config, image) ==
  IF config # << >> \/ ~image THEN << >>
  ELSE << WlCall("updateConfig", [ min |-> ScalarRange[1], max |-> ScalarRange[2] ]),
          WlCall("resetWindowLevel", NoPatch) >>

\* watchImmediate(imageData, ...): without a config and with an image, min and
\* max come from the auto range of the preset, then the preset from the tag's
\* first window level, then from the forced one, then the reset
onImageData(config, image, tag, forced) ==
  IF config # << >> \/ ~image THEN << >>
  ELSE << WlCall("updateConfig",
                 [ min |-> autoRangeValues[WL_AUTO_DEFAULT][1],
                   max |-> autoRangeValues[WL_AUTO_DEFAULT][2] ]) >>
       \o (IF tag # << >> /\ tag[1].width # 0
             THEN << WlCall("updateConfig", [ preset |-> tag[1] ]) >>
             ELSE << >>)
       \o (IF forced # << >>
             THEN << WlCall("updateConfig", [ preset |-> forced[1] ]) >>
             ELSE << >>)
       \o << WlCall("resetWindowLevel", NoPatch) >>

\* faulty variant: the forced window level is applied again
onAutoRange_reappliesForced(config, image, percentile) ==
  IF config = << >> \/ ~image THEN << >>
  ELSE << WlCall("updateConfig",
                 [ min |-> autoRangeValues[percentile][1],
                   max |-> autoRangeValues[percentile][2] ]) >>
       \o (IF runtimeConfigWindowLevel # << >>
             THEN << WlCall("updateConfig",
                            [ preset |-> runtimeConfigWindowLevel[1] ]) >>
             ELSE << >>)
       \o << WlCall("resetWindowLevel", NoPatch) >>

\* watch(autoRange, ...): with a config and an image, min and max come from
\* the auto range of the new preset, then the reset
onAutoRange(config, image, percentile) ==
  IF config = << >> \/ ~image THEN << >>
  ELSE << WlCall("updateConfig",
                 [ min |-> autoRangeValues[percentile][1],
                   max |-> autoRangeValues[percentile][2] ]),
          WlCall("resetWindowLevel", NoPatch) >>

notWindowingVars ==
  << notifyVars, loadedByBus, busCall, loadOptions, pollVars, volumes,
     bridgeVars, clientVars, partVars >>

\* useWindowingConfigInitializer(viewID, imageID) is called: both immediate
\* watchers run, in the order they are created
WlSetup(tag, forced) ==
  /\ ~wlSetup
  /\ wlSetup' = TRUE
  /\ firstTag' = tag
  /\ runtimeConfigWindowLevel' = forced
  /\ LET first == onWindowConfig(windowConfig, imageData)
         then == onImageData(applyCalls(windowConfig, first), imageData, tag, forced)
     IN  /\ wlCalls' = first \o then
         /\ windowConfig' = applyCalls(windowConfig, first \o then)
  /\ UNCHANGED imageData
  /\ UNCHANGED notWindowingVars

\* the image of imageID is loaded: the imageData watcher runs, and then the
\* windowConfig watcher if the config has changed
ImageLoaded ==
  /\ ~imageData
  /\ imageData' = TRUE
  /\ IF wlSetup
       THEN LET first == onImageData(windowConfig, TRUE, firstTag,
                                     runtimeConfigWindowLevel)
                after == applyCalls(windowConfig, first)
                then == IF after # windowConfig
                          THEN onWindowConfig(after, TRUE) ELSE << >>
            IN  /\ wlCalls' = first \o then
                /\ windowConfig' = applyCalls(windowConfig, first \o then)
       ELSE UNCHANGED << wlCalls, windowConfig >>
  /\ UNCHANGED << wlSetup, firstTag, runtimeConfigWindowLevel >>
  /\ UNCHANGED notWindowingVars

\* the image of imageID is unloaded: the imageData watcher runs without an image
ImageUnloaded ==
  /\ imageData
  /\ imageData' = FALSE
  /\ wlCalls' = IF wlSetup THEN << >> ELSE wlCalls
  /\ UNCHANGED << wlSetup, windowConfig, firstTag, runtimeConfigWindowLevel >>
  /\ UNCHANGED notWindowingVars

\* the user picks another percentile preset: config.auto changes and the
\* autoRange watcher runs
SetAutoRange(percentile) ==
  /\ windowConfig # << >>
  /\ windowConfig[1].auto # percentile
  /\ LET picked == updateConfig(windowConfig, [ auto |-> percentile ])
         made == IF wlSetup THEN onAutoRange(picked, imageData, percentile)
                            ELSE << >>
     IN  /\ wlCalls' = IF wlSetup THEN made ELSE wlCalls
         /\ windowConfig' = applyCalls(picked, made)
  /\ UNCHANGED << wlSetup, imageData, firstTag, runtimeConfigWindowLevel >>
  /\ UNCHANGED notWindowingVars

\* useResetViewsEvents().onClick: the window level of a config is reset
ResetViewsClick ==
  /\ wlSetup
  /\ LET made == IF windowConfig = << >> THEN << >>
                 ELSE << WlCall("resetWindowLevel", NoPatch) >>
     IN  /\ wlCalls' = made
         /\ windowConfig' = applyCalls(windowConfig, made)
  /\ UNCHANGED << wlSetup, imageData, firstTag, runtimeConfigWindowLevel >>
  /\ UNCHANGED notWindowingVars

\* ------------------------------------------------------------- inputs
error1 == [ message |-> "decode failed",
            inputDataStackTrace |-> << "slice.dcm", "archive.zip" >> ]
error2 == [ message |-> "unsupported", inputDataStackTrace |-> << "notes.txt" >> ]

\* sequences of at most n distinct members of ids
DistinctSeqs(ids, n) ==
  UNION { { s \in [1..k -> ids] : \A a, b \in 1..k : a # b => s[a] # s[b] } :
          k \in 0..n }

\* a batch in which every source succeeded with one result
AllSucceeded(idSeq) == [ k \in 1..Len(idSeq) |-> Success(<< idSeq[k] >>) ]

DicomInputs ==
  { Input(AllSucceeded(s), FALSE, "", NoOptions) :
      s \in DistinctSeqs(DOMAIN DicomCatalog, MaxBatch) }

FileInputs ==
  { Input(AllSucceeded(s), FALSE, "", NoOptions) :
      s \in DistinctSeqs(DOMAIN FileCatalog \cup { "ct1", "pt1", "seg1" },
                         MaxBatch) }

LoadInputs ==
  { Input(<< Success(<< "ct2" >>), Success(<< "pt1" >>) >>, FALSE, "", NoOptions),
    Input(<< Success(<< "scan" >>), Success(<< "scanSeg" >>) >>,
          TRUE, "key1", "layoutName" :> "Axial Only"),
    Input(<< Failure(<< error1, error2 >>), Success(<< "ct1" >>),
             Success(<< "pt2" >>), Failure(<< error2 >>) >>, TRUE, "", NoOptions),
    Input(<< Failure(<< error2 >>) >>, TRUE, "key1", NoOptions),
    Input(<< Success(<< "mesh" >>) >>, FALSE, "", NoOptions),
    Input(<< >>, FALSE, "", NoOptions) }

\* the loads that run beside direct calls of startLoading / stopLoading
ApiInputs ==
  { Input(<< Success(<< "ct2" >>) >>, FALSE, "", NoOptions),
    Input(<< Failure(<< error2 >>) >>, TRUE, "key1", NoOptions) }

\* ------------------------------------------------- the DICOM-web client
\* fetchSeries / fetchInstance calls followed, and the instances of a series
MaxFetches == 3
MaxSeries == 2
Fetches == 1..MaxFetches

\* a call of the client: not made, waiting for the server, or settled with
\* the names of the files it returned
NoFetch == [ state |-> "idle", returned |-> << >> ]

\* toFile(instance): the counter goes up by one and names the file
toFile_reusesName(counter) ==
  [ fileCounter |-> counter,
    name |-> "dicom-web." \o ToString(counter) \o ".dcm" ]
toFile(counter) ==
  [ fileCounter |-> counter + 1,
    name |-> "dicom-web." \o ToString(counter + 1) \o ".dcm" ]

\* series.map(toFile) over n instances, the counter being at counter
RECURSIVE mapToFile(_, _)
mapToFile(n, counter) ==
  IF n = 0 THEN << >>
  ELSE << toFile(counter).name >> \o mapToFile(n - 1, toFile(counter).fileCounter)

\* the counter after n calls of toFile
RECURSIVE counterAfter(_, _)
counterAfter(n, counter) ==
  IF n = 0 THEN counter ELSE counterAfter(n - 1, toFile(counter).fileCounter)

notClientVars ==
  << notifyVars, loadedByBus, busCall, loadOptions, pollVars, volumes,
     bridgeVars, windowingVars, partVars >>

\* fetchSeries(dicomWebRoot, options, progressCallback) is called and waits
\* for client.retrieveSeries
fetchSeries(c) ==
  /\ fetches[c].state = "idle"
  /\ fetches' = [ fetches EXCEPT ![c].state = "series" ]
  /\ UNCHANGED << fileCounter, files, notClientVars >>

\* fetchInstance(dicomWebRoot, instance) is called and waits for
\* client.retrieveInstance
fetchInstance(c) ==
  /\ fetches[c].state = "idle"
  /\ fetches' = [ fetches EXCEPT ![c].state = "instance" ]
  /\ UNCHANGED << fileCounter, files, notClientVars >>

\* retrieveSeries resolved with n instances: all of them are mapped at once
SeriesRetrieved(c, n) ==
  /\ fetches[c].state = "series"
  /\ fetches' = [ fetches EXCEPT ![c] =
                    [ state |-> "fulfilled",
                      returned |-> mapToFile(n, fileCounter) ] ]
  /\ files' = files \o mapToFile(n, fileCounter)
  /\ fileCounter' = counterAfter(n, fileCounter)
  /\ UNCHANGED notClientVars

\* retrieveInstance resolved
InstanceRetrieved(c) ==
  /\ fetches[c].state = "instance"
  /\ fetches' = [ fetches EXCEPT ![c] =
                    [ state |-> "fulfilled",
                      returned |-> << toFile(fileCounter).name >> ] ]
  /\ files' = Append(files, toFile(fileCounter).name)
  /\ fileCounter' = toFile(fileCounter).fileCounter
  /\ UNCHANGED notClientVars

\* the request of the call was rejected: no file is made
RetrieveRejected(c) ==
  /\ fetches[c].state \in { "series", "instance" }
  /\ fetches' = [ fetches EXCEPT ![c].state = "rejected" ]
  /\ UNCHANGED << fileCounter, files, notClientVars >>

\* ------------------------------------------------- the bridge's peer ID
\* the characters of the pages' URLs and their char codes
charCode == "a" :> 97 @@ "b" :> 98 @@ "c" :> 99 @@ "/" :> 47 @@ ":" :> 58

\* the base64 alphabet
base64Chars ==
  <<
     "A", "B", "C", "D", "E", "F", "G", "H", "I", "J", "K", "L", "M",
     "N", "O", "P", "Q", "R", "S", "T", "U", "V", "W", "X", "Y", "Z",
     "a", "b", "c", "d", "e", "f", "g", "h", "i", "j", "k", "l", "m",
     "n", "o", "p", "q", "r", "s", "t", "u", "v", "w", "x", "y", "z",
     "0", "1", "2", "3", "4", "5", "6", "7", "8", "9", "+", "/" >>

\* one group of window.btoa: three bytes give four characters, two give three
\* and '=', one gives two and '=='
btoaGroup(bytes) ==
  LET n == bytes[1] * 65536
           + (IF Len(bytes) > 1 THEN bytes[2] * 256 ELSE 0)
           + (IF Len(bytes) > 2 THEN bytes[3] ELSE 0)
  IN  << base64Chars[(n \div 262144) + 1],
         base64Chars[((n \div 4096) % 64) + 1],
         IF Len(bytes) > 1 THEN base64Chars[((n \div 64) % 64) + 1] ELSE "=",
         IF Len(bytes) > 2 THEN base64Chars[(n % 64) + 1] ELSE "=" >>

\* window.btoa(s)
RECURSIVE btoa(_)
btoa(s) ==
  IF s = << >> THEN << >>
  ELSE LET k == IF Len(s) < 3 THEN Len(s) ELSE 3
       IN  btoaGroup([ j \in 1..k |-> charCode[s[j]] ])
           \o btoa(SubSeq(s, k + 1, Len(s)))

volview_ == << "v", "o", "l", "v", "i", "e", "w", "-" >>

\* a page: its href and the projectId, datasetId and uid of its query ('' =
\* the parameter is not there)
Page(projectId, datasetId, uid, href) ==
  [ projectId |-> projectId, datasetId |-> datasetId, uid |-> uid,
    href |-> href ]

\* faulty variant: the dataset is looked at before the project
peerIdFor_datasetFirst(page) ==
  volview_ \o (IF page.datasetId # EmptyString THEN page.datasetId
               ELSE IF page.projectId # EmptyString THEN page.projectId
               ELSE IF page.uid # EmptyString THEN page.uid
               ELSE btoa(page.href))

\* `volview-${projectId || datasetId || uid ||
\* window.btoa(document.location.href)}`
peerIdFor(page) ==
  volview_ \o (IF page.projectId # EmptyString THEN page.projectId
               ELSE IF page.datasetId # EmptyString THEN page.datasetId
               ELSE IF page.uid # EmptyString THEN page.uid
               ELSE btoa(page.href))

\* the pages: every choice of the three parameters, and for none of them
\* hrefs of one to four characters
Pages ==
  { Page(projectId, datasetId, uid, << "a", "b" >>) :
      projectId \in { EmptyString, << "p", "1" >> },
      datasetId \in { EmptyString, << "d" >> },
      uid \in { EmptyString, << "u" >> } }
  \cup { Page(EmptyString, EmptyString, EmptyString, href) :
           href \in { << "a" >>, << "a", "b", "c" >>, << "a", ":", "/", "b" >> } }

DefaultPage == Page(<< "p", "1" >>, EmptyString, << "u" >>, << "a", "b" >>)

\* the state of the loads, the bridge, the windowing and the client
coreVars ==
  << notifyVars, loadedByBus, busCall, loadOptions, pollVars, volumes,
     bridgeVars, windowingVars, clientVars >>

notPeerVars == << coreVars, stateFileVars, remoteVars, sliceVars >>

\* the page goes to another URL
Navigate(page) ==
  /\ page # location
  /\ location' = page
  /\ UNCHANGED << peerIds, notPeerVars >>

\* useEventBus(handlers, loadDataStore) is called: the query is read and the
\* peer ID of this call is made from it
UseEventBus ==
  /\ Len(peerIds) < MaxMounts
  /\ peerIds' = Append(peerIds, [ peerId |-> peerIdFor(location), page |-> location ])
  /\ UNCHANGED << location, notPeerVars >>

\* ------------------------------------------------ writing the state file
MaxSerialize == 2

\* fileStore.getDatasetFiles(id): the files of a data ID, remote ones with
\* their url, and none for an ID the store does not know
Local(name) == [ remote |-> FALSE, url |-> "", name |-> name ]
Remote(url, name) == [ remote |-> TRUE, url |-> url, name |-> name ]
DatasetFiles ==
     "d1" :> << Local("a.dcm"), Remote("http://h/b.zip", "b.dcm") >>
  @@ "d2" :> << Local("c.nii") >>
  @@ "d3" :> << >>
getDatasetFiles(id) == DatasetFiles[id]

DataIDs == DOMAIN DatasetFiles
DatasetTypes == { "dicom", "image" }

EmptyStateFile ==
  [ datasets |-> << >>,
    remoteDatasetFileEntries |-> [ id \in { } |-> << >> ],
    zip |-> { } ]
NoSerialize == [ calls |-> 0, dataIDs |-> << >>, dataType |-> "", thrown |-> "" ]

\* the body of dataIDs.forEach for one id whose files are there
serializeOne(file_, id, dataType_) ==
  LET files_ == getDatasetFiles(id)
      remoteFiles == SelectSeq(files_, LAMBDA f : f.remote)
      zipFiles == SelectSeq(files_, LAMBDA f : ~f.remote)
      dataPath == "data/" \o id \o "/"
  IN  [ datasets |->
          Append(file_.datasets,
                 [ id |-> id, path |-> dataPath, type |-> dataType_ ]),
        remoteDatasetFileEntries |->
          (id :> [ k \in 1..Len(remoteFiles) |->
                     [ url |-> remoteFiles[k].url, path |-> "",
                       name |-> remoteFiles[k].name ] ])
          @@ file_.remoteDatasetFileEntries,
        zip |->
          file_.zip \cup { dataPath \o "/" \o zipFiles[k].name :
                             k \in 1..Len(zipFiles) } ]

\* faulty variant: an id without files is left out and the others are written
RECURSIVE serializeData_skipsMissing(_, _, _)
serializeData_skipsMissing(file_, dataIDs, dataType_) ==
  IF dataIDs = << >> THEN [ stateFile |-> file_, thrown |-> "" ]
  ELSE IF getDatasetFiles(Head(dataIDs)) = << >>
    THEN [ stateFile |->
             serializeData_skipsMissing(file_, Tail(dataIDs), dataType_).stateFile,
           thrown |-> "No files for dataID: " \o Head(dataIDs) ]
  ELSE serializeData_skipsMissing(serializeOne(file_, Head(dataIDs), dataType_),
                                  Tail(dataIDs), dataType_)

\* serializeData(stateFile, dataIDs, dataType): the state file as the call
\* leaves it and the message of the error it threw ('' = none)
RECURSIVE serializeData(_, _, _)
serializeData(file_, dataIDs, dataType_) ==
  IF dataIDs = << >> THEN [ stateFile |-> file_, thrown |-> "" ]
  ELSE IF getDatasetFiles(Head(dataIDs)) = << >>
    THEN [ stateFile |-> file_,
           thrown |-> "No files for dataID: " \o Head(dataIDs) ]
  ELSE serializeData(serializeOne(file_, Head(dataIDs), dataType_),
                     Tail(dataIDs), dataType_)

notStateFileVars == << coreVars, peerVars, remoteVars, sliceVars >>

\* serializeData is called on the state file
SerializeData(dataIDs, dataType_) ==
  /\ lastSerialize.calls < MaxSerialize
  /\ LET done == serializeData(stateFile, dataIDs, dataType_)
     IN  /\ stateFile' = done.stateFile
         /\ lastSerialize' =
              [ calls |-> lastSerialize.calls + 1, dataIDs |-> dataIDs,
                dataType |-> dataType_, thrown |-> done.thrown ]
  /\ UNCHANGED notStateFileVars

\* ------------------------------------------------ reading remote files
\* manifest.remoteDatasetFileEntries: per dataset, its remote file entries
Entry(url, path, name) == [ url |-> url, path |-> path, name |-> name ]
remoteDatasetFileEntries ==
     "m1" :> << Entry("urlA", "", "b.dcm"), Entry("urlA", "", "c.dcm") >>
  @@ "m2" :> << Entry("urlA", "", "b.dcm"), Entry("urlB", "", "x.nii") >>
  @@ "m3" :> << Entry("urlB", "", "y.nii") >>
Datasets == DOMAIN remoteDatasetFileEntries
Urls == { "urlA", "urlB" }

\* what fetching and extracting a url gives: files with the path '' put in
\* where they have none
fetched ==
     "urlA" :> { [ path |-> "", name |-> "b.dcm" ], [ path |-> "", name |-> "c.dcm" ] }
  @@ "urlB" :> { [ path |-> "", name |-> "x.nii" ] }

\* the getFile calls: entry k of dataset id
Requests ==
  { << id, k >> : id \in Datasets, k \in 1..2 } \ { << "m3", 2 >> }
entryOf(r) == remoteDatasetFileEntries[r[1]][r[2]]

NoRequest == [ state |-> "none", file |-> << >> ]

\* faulty variant: the cache is looked up for fetched files only
startGetFile_cachesFiles(cache_, url) ==
  IF cache_[url] \notin { "files" }
    THEN [ cache |-> [ cache_ EXCEPT ![url] = "pending" ], fetches |-> 1,
           state |-> "fetching" ]
    ELSE [ cache |-> cache_, fetches |-> 0, state |-> "waiting" ]

\* getFile up to its first await: with no cache entry for the url the fetch
\* is started and its promise cached; either way the call then waits
startGetFile(cache_, url) ==
  IF cache_[url] = "absent"
    THEN [ cache |-> [ cache_ EXCEPT ![url] = "pending" ], fetches |-> 1,
           state |-> "fetching" ]
    ELSE [ cache |-> cache_, fetches |-> 0, state |-> "waiting" ]

\* entries.map(getFile): the calls are started one after the other
RECURSIVE mapGetFile(_, _, _, _, _)
mapGetFile(id, k, cache_, count, reqs) ==
  IF k > Len(remoteDatasetFileEntries[id])
    THEN [ cache |-> cache_, fetchCount |-> count, requests |-> reqs ]
    ELSE LET url == remoteDatasetFileEntries[id][k].url
             started == startGetFile(cache_, url)
         IN  mapGetFile(id, k + 1, started.cache,
                        [ count EXCEPT ![url] = @ + started.fetches ],
                        [ reqs EXCEPT ![<< id, k >>].state = started.state ])

notRemoteVars == << coreVars, peerVars, stateFileVars, sliceVars >>

\* the function deserializeDatasetFiles returned is called for a dataset:
\* getFile is called for each of its remote entries
DeserializeDataset(id) ==
  /\ requests[<< id, 1 >>].state = "none"
  /\ LET done == mapGetFile(id, 1, cache, fetchCount, requests)
     IN  /\ cache' = done.cache
         /\ fetchCount' = done.fetchCount
         /\ requests' = done.requests
  /\ UNCHANGED notRemoteVars

\* the fetch of a url, with the retyping and the extraction, settles
RemoteFetchSettle(url, ok) ==
  /\ cache[url] = "pending"
  /\ cache' = [ cache EXCEPT ![url] = IF ok THEN "fulfilled" ELSE "rejected" ]
  /\ UNCHANGED << fetchCount, requests, notRemoteVars >>

\* find(({ path, file: { name } }) => path === remoteFilePath && name ===
\* remoteFileName), and the error when nothing is found
findFile(r) ==
  LET found == { f \in fetched[entryOf(r).url] :
                   f.path = entryOf(r).path /\ f.name = entryOf(r).name }
  IN  IF found = { }
        THEN [ state |-> "thrown", file |-> << >> ]
        ELSE [ state |-> "returned", file |-> << CHOOSE f \in found : TRUE >> ]

\* a getFile call goes on after an await: the call that started the fetch
\* replaces the promise in the cache by its files and awaits again; a call
\* that has the files looks its own file up; a rejected fetch rejects it
GetFileResume(r) ==
  LET url == entryOf(r).url
  IN  /\ requests[r].state \in { "fetching", "waiting" }
      /\ cache[url] # "pending"
      /\ IF cache[url] = "rejected"
           THEN /\ requests' = [ requests EXCEPT ![r].state = "rejected" ]
                /\ UNCHANGED cache
           ELSE IF requests[r].state = "fetching"
             THEN /\ cache' = [ cache EXCEPT ![url] = "files" ]
                  /\ requests' = [ requests EXCEPT ![r].state = "waiting" ]
             ELSE /\ requests' = [ requests EXCEPT ![r] = findFile(r) ]
                  /\ UNCHANGED cache
      /\ UNCHANGED << fetchCount, notRemoteVars >>

\* ------------------------------------------------------- the slice store
\* the views and the image the slice store is followed for
SliceViews == { "Axial", "3D" }
SliceData == { "ct1" }
Pairs == SliceViews \X SliceData

defaultSliceConfig ==
  [ slice |-> 0, min |-> 0, max |-> 1, axisDirection |-> "Inferior" ]

\* clampValue(value, min, max) of '@/src/utils'
clampValue(value, min_, max_) ==
  LET low == IF value < max_ THEN value ELSE max_
  IN  IF low > min_ THEN low ELSE min_

\* Math.ceil(x / 2)
ceilHalf(x) == (x + 1) \div 2

\* getConfig(viewID, dataID) on a given table of configs
getConfigIn(table, viewID, dataID) == table[<< viewID, dataID >>]

\* faulty variant: the slice is stored as it comes out of the merge
updateConfigIn_unclamped(table, viewID, dataID, patch) ==
  LET old == getConfigIn(table, viewID, dataID)
      base == IF old = << >> THEN defaultSliceConfig ELSE old[1]
      merged == [ f \in DOMAIN base |->
                    IF f \in DOMAIN patch THEN patch[f] ELSE base[f] ]
  IN  [ table EXCEPT ![<< viewID, dataID >>] = << merged >> ]

\* updateConfig(viewID, dataID, patch): the defaults, the config there is and
\* the patch are merged, the slice is clamped to the merged min and max, and
\* the result is stored for the pair; the table after the call
updateConfigIn(table, viewID, dataID, patch) ==
  LET old == getConfigIn(table, viewID, dataID)
      base == IF old = << >> THEN defaultSliceConfig ELSE old[1]
      merged == [ f \in DOMAIN base |->
                    IF f \in DOMAIN patch THEN patch[f] ELSE base[f] ]
      config == [ merged EXCEPT
                    !.slice = clampValue(merged.slice, merged.min, merged.max) ]
  IN  [ table EXCEPT ![<< viewID, dataID >>] = << config >> ]

\* the patches updateConfig is called with
Patches == { [ slice |-> 20 ], [ min |-> 3, max |-> 9 ] }

\* the view whose saved configs are read, and the view configs of a saved
\* state, per data ID: with a slice config or without one
SavedViews == { "3D" }
SavedConfigs ==
  { "ct1" :> [ slice |-> << [ slice |-> 7, min |-> 0, max |-> 5,
                              axisDirection |-> "Inferior" ] >> ],
    "ct1" :> [ slice |-> << >> ] }

\* what the store keeps of a resetSlice call: the config it read, and
\* tryGetInitialSlice's retryCount and slice
NoReset ==
  [ state |-> "none", viewID |-> "", dataID |-> "", config |-> << >>,
    retryCount |-> 0, slice |-> << >> ]

\* useDICOMStore().volumeKeyGetSuffix(volumeKey): the key the volume was
\* loaded with ("" = none)
volumeKeyGetSuffix(volumeKey) == IF volumeKey = "ct1" THEN "key1" ELSE ""

\* the primary selections made: a DICOM volume loaded with a key, one loaded
\* without, an image
SliceSelections == { "ct1", "ct2", "scan" }

\* the initial slices the host sends for the session
InitialSlices == { "Axial" :> 5 }

\* everything but the slice store, the primary selection and the records
sliceRest ==
  << segmentGroupExtension, loadingCount, loadingError, watched, pendingFlush,
     toastVars, layout, loadVars, barrier, apiStarts, apiStops, busCall,
     loadOptions, pollVars, volumes, bridgeVars, windowingVars, clientVars,
     peerVars, stateFileVars, remoteVars >>

\* dataStore.setPrimarySelection(id)
SetPrimarySelection(id) ==
  /\ primarySelection # id
  /\ primarySelection' = id
  /\ UNCHANGED << loadedByBus, sliceVars, sliceRest >>

\* setLoadedByBus(key, { initialSlices }) for the session of the image, and
\* the image's entry in imageIDToVolumeKeyUID
SessionSlices(key, slices) ==
  /\ loadedByBus' = setLoadedByBus(key, "initialSlices" :> slices)
  /\ imageIDToVolumeKeyUID' = ("ct1" :> key)
  /\ UNCHANGED << primarySelection, configs, resetCall, sliceRest >>

\* updateConfig(viewID, dataID, patch)
UpdateConfig(viewID, dataID, patch) ==
  /\ configs' = updateConfigIn(configs, viewID, dataID, patch)
  /\ UNCHANGED << primarySelection, loadedByBus, imageIDToVolumeKeyUID,
                  resetCall, sliceRest >>

\* deserialize(viewID, config): updateConfig for each data ID of the saved
\* view configs that has a slice config
RECURSIVE deserializeIn(_, _, _, _)
deserializeIn(table, viewID, config, dataIDs) ==
  IF dataIDs = { } THEN table
  ELSE LET dataID == CHOOSE d \in dataIDs : TRUE
           viewConfig == config[dataID]
           next == IF viewConfig.slice # << >>
                     THEN updateConfigIn(table, viewID, dataID,
                                         viewConfig.slice[1])
                     ELSE table
       IN  deserializeIn(next, viewID, config, dataIDs \ { dataID })

Deserialize(viewID, config) ==
  /\ configs' = deserializeIn(configs, viewID, config, DOMAIN config)
  /\ UNCHANGED << primarySelection, loadedByBus, imageIDToVolumeKeyUID,
                  resetCall, sliceRest >>

\* one pass of tryGetInitialSlice's loop: initialSlices[viewID] of the record
\* of the image's key, when the record has initialSlices
readInitialSlice(viewID, dataID) ==
  LET key == IF dataID \in DOMAIN imageIDToVolumeKeyUID
               THEN imageIDToVolumeKeyUID[dataID] ELSE ""
      record == getLoadedByBus(key)
  IN  IF "initialSlices" \in DOMAIN record
         /\ viewID \in DOMAIN record.initialSlices
        THEN << record.initialSlices[viewID] >>
        ELSE << >>

\* the slice resetSlice hands to updateConfig: the initial slice clamped to
\* the min and max of the config it read when it was called, else the middle
\* of that config
sliceToSet(config, slice) ==
  IF slice # << >>
    THEN clampValue(slice[1], config.min, config.max)
    ELSE ceilHalf(config.min + config.max)

\* resetSlice(viewID, dataID): returns when the pair has no config; polls for
\* the initial slice when the primary selection is a DICOM volume with a key
\* and the view is Axial, Sagittal or Coronal; else sets the slice at once
ResetSlice(viewID, dataID) ==
  LET config == getConfigIn(configs, viewID, dataID)
      polls == /\ primarySelection # Null
               /\ dataType(primarySelection) = "dicom"
               /\ volumeKeyGetSuffix(primarySelection) # ""
               /\ viewID \in { "Axial", "Sagittal", "Coronal" }
      call == [ state |-> "done", viewID |-> viewID, dataID |-> dataID,
                config |-> config, retryCount |-> 0, slice |-> << >> ]
  IN  /\ resetCall.state # "polling"
      /\ IF config = << >>
           THEN /\ resetCall' = [ call EXCEPT !.state = "returned" ]
                /\ UNCHANGED configs
           ELSE IF polls
             THEN /\ resetCall' =
                       [ call EXCEPT !.state = "polling",
                                     !.retryCount = RetryCount,
                                     !.slice = readInitialSlice(viewID, dataID) ]
                  /\ UNCHANGED configs
             ELSE /\ resetCall' = call
                  /\ configs' =
                       updateConfigIn(configs, viewID, dataID,
                         [ slice |-> sliceToSet(config[1], << >>) ])
      /\ UNCHANGED << primarySelection, loadedByBus, imageIDToVolumeKeyUID,
                      sliceRest >>

\* the 10 ms timer of tryGetInitialSlice's loop fires: retryCount goes down by
\* one; the loop goes on while there is no slice and retryCount is above 0,
\* and after it resetSlice calls updateConfig with the slice
ResetTimer ==
  LET left == resetCall.retryCount - 1
  IN  /\ resetCall.state = "polling"
      /\ IF resetCall.slice = << >> /\ left > 0
           THEN /\ resetCall' =
                     [ resetCall EXCEPT
                         !.retryCount = left,
                         !.slice = readInitialSlice(resetCall.viewID,
                                                    resetCall.dataID) ]
                /\ UNCHANGED configs
           ELSE /\ resetCall' = [ resetCall EXCEPT !.state = "done",
                                                   !.retryCount = left ]
                /\ configs' =
                     updateConfigIn(configs, resetCall.viewID, resetCall.dataID,
                       [ slice |-> sliceToSet(resetCall.config[1],
                                              resetCall.slice) ])
      /\ UNCHANGED << primarySelection, loadedByBus, imageIDToVolumeKeyUID,
                      sliceRest >>

\* ------------------------------------------------------- specifications
Init ==
  /\ segmentGroupExtension \in { EmptyString, seg }
  /\ loadedByBus = << >>
  /\ loadingCount = 0
  /\ loadingError = NoError
  /\ watched = 0
  /\ pendingFlush = FALSE
  /\ toastID = Null
  /\ toastOpen = FALSE
  /\ toastContent = "none"
  /\ toastOnClose = FALSE
  /\ messages = << >>
  /\ primarySelection = Null
  /\ layout = "default"
  /\ pc = [ i \in Loads |-> "idle" ]
  /\ outcome = [ i \in Loads |-> "none" ]
  /\ sources = [ i \in Loads |-> << >> ]
  /\ volumeKeySuffix = [ i \in Loads |-> "" ]
  /\ barrier = [ i \in Loads |-> FALSE ]
  /\ calls = [ i \in Loads |-> << >> ]
  /\ primaryDataSource = [ i \in Loads |-> Undefined ]
  /\ apiStarts = 0
  /\ apiStops = 0
  /\ busCall = NoCall
  /\ loadOptions = [ i \in Loads |-> << >> ]
  /\ selection = [ i \in Loads |-> Null ]
  /\ retryCount = [ i \in Loads |-> 0 ]
  /\ imageID = [ i \in Loads |-> Undefined ]
  /\ volumes = << >>
  /\ mounted = FALSE
  /\ instance = 0
  /\ windowBus = FALSE
  /\ emitter = [ e \in Events |-> << >> ]
  /\ listeners = << >>
  /\ ports = [ g \in Instances |-> [ peer \in Peers |-> 0 ] ]
  /\ portHandlers = [ p \in Ports |-> NoHandlers ]
  /\ portOpen = [ p \in Ports |-> FALSE ]
  /\ portCount = 0
  /\ embedded = "unread"
  /\ query = DefaultQuery
  /\ electron = FALSE
  /\ waiting = { }
  /\ requested = << >>
  /\ lastEvent = NoEvent
  /\ wlSetup = FALSE
  /\ imageData = FALSE
  /\ windowConfig = << >>
  /\ firstTag = << >>
  /\ runtimeConfigWindowLevel = << >>
  /\ wlCalls = << >>
  /\ fileCounter = 0
  /\ fetches = [ c \in Fetches |-> NoFetch ]
  /\ files = << >>
  /\ location = DefaultPage
  /\ peerIds = << >>
  /\ stateFile = EmptyStateFile
  /\ lastSerialize = NoSerialize
  /\ cache = [ url \in Urls |-> "absent" ]
  /\ fetchCount = [ url \in Urls |-> 0 ]
  /\ requests = [ r \in Requests |-> NoRequest ]
  /\ configs = [ p \in Pairs |-> << >> ]
  /\ imageIDToVolumeKeyUID = << >>
  /\ resetCall = NoReset

\* the stores as constructed and segmentGroupExtension never set: ref('')
InitDefault == Init /\ segmentGroupExtension = EmptyString

\* overlapping loads
Next ==
  \/ \E i \in Loads : LoadUrls(i, LoadInputs)
  \/ \E i \in Loads : ImportResolve(i)
  \/ \E i \in Loads : ImportReject(i)
  \/ \E i \in Loads : Finally(i)
  \/ WatchFlush
  \/ ToastClosed

Spec == Init /\ [][Next]_vars

\* overlapping loads and direct calls of startLoading / stopLoading
NextApi ==
  \/ \E i \in Loads : LoadUrls(i, ApiInputs)
  \/ \E i \in Loads : ImportResolve(i)
  \/ \E i \in Loads : ImportReject(i)
  \/ \E i \in Loads : Finally(i)
  \/ WatchFlush
  \/ ToastClosed
  \/ StartLoadingCall
  \/ StopLoadingCall

SpecApi == Init /\ [][NextApi]_vars

\* one load of any batch of DICOM volumes
NextDicom ==
  \/ LoadUrls(1, DicomInputs)
  \/ ImportResolve(1)
  \/ ImportReject(1)
  \/ Finally(1)
  \/ WatchFlush
  \/ ToastClosed

SpecDicom == Init /\ [][NextDicom]_vars

\* one load of any batch of images, models and other files
NextFiles ==
  \/ LoadUrls(1, FileInputs)
  \/ ImportResolve(1)
  \/ ImportReject(1)
  \/ Finally(1)
  \/ WatchFlush
  \/ ToastClosed

SpecFiles == Init /\ [][NextFiles]_vars

\* ------------------------------------------------------ session records
\* the keys setLoadedByBus is called with ("" = undefined)
BusKeys == { "", "key1", "key2" }

\* the options a record is made of, and the values they take
OptionValues ==
  [ layoutName |-> { "Axial Only", "Quad View" }, s |-> { "0" },
    n |-> { "1" } ]

\* the partial records: some of the options, each with one of its values
Partials ==
  UNION { { p \in [ fs -> UNION { OptionValues[f] : f \in fs } ] :
              \A f \in fs : p[f] \in OptionValues[f] } :
          fs \in SUBSET DOMAIN OptionValues }

\* setLoadedByBus(key, partial) called on the store
SetLoadedByBusCall ==
  \E key \in BusKeys, partial \in Partials :
    /\ loadedByBus' = setLoadedByBus(key, partial)
    /\ busCall' = [ key |-> key, value |-> partial ]
    /\ UNCHANGED << notifyVars, loadOptions, pollVars, volumes, bridgeVars,
                    windowingVars, clientVars, partVars >>

NextRecords ==
  \/ SetLoadedByBusCall

SpecRecords == Init /\ [][NextRecords]_vars

\* ------------------------------------------------------ loads from the bus
\* loadUrls(params, options) calls, as the 'load' handler makes them
BusInputs ==
  { Input(AllSucceeded(<< "ct2" >>), TRUE, "key1", "layoutName" :> "Axial Only"),
    Input(AllSucceeded(<< "ct1" >>), TRUE, "key1", "layoutName" :> "Quad View"),
    Input(AllSucceeded(<< "scan" >>), TRUE, "key2", "s" :> "0") }

\* the same with a dicomWebURL, a study and a series UID: the files come from
\* fetchInstance / fetchSeries
DicomWebInputs ==
  { Input(AllSucceeded(<< "ct1" >>), TRUE, "key1", "layoutName" :> "Quad View"),
    Input(AllSucceeded(<< "mr2" >>), TRUE, "key2", NoOptions) }

\* overlapping loads from the bus, and the 'gotimage' handler
NextBus ==
  \/ \E i \in Loads : LoadUrls(i, BusInputs)
  \/ \E i \in Loads : FetchStart(i, DicomWebInputs)
  \/ \E i \in Loads : FetchSettle(i)
  \/ \E i \in Loads : ImportResolve(i)
  \/ \E i \in Loads : ImportReject(i)
  \/ \E i \in Loads : Finally(i)
  \/ WatchFlush
  \/ ToastClosed
  \/ \E dataID \in DOMAIN DicomCatalog : RecordVolume(dataID)
  \/ \E dataID \in DOMAIN DicomCatalog, viewIdVal \in ViewIDs,
        hasWindowLevel \in BOOLEAN :
       useFirstTagVal(dataID, viewIdVal, hasWindowLevel)

SpecBus == InitDefault /\ [][NextBus]_vars

\* loads of a volume, of an image, of a model with a volume, of nothing
OverlapInputs ==
  { Input(AllSucceeded(<< "ct2" >>), FALSE, "", NoOptions),
    Input(AllSucceeded(<< "scan" >>), FALSE, "", NoOptions),
    Input(AllSucceeded(<< "mesh", "pt1" >>), FALSE, "", NoOptions),
    Input(<< Failure(<< error2 >>) >>, FALSE, "", NoOptions) }

\* overlapping loads that compete for the primary selection
NextOverlap ==
  \/ \E i \in Loads : LoadUrls(i, OverlapInputs)
  \/ \E i \in Loads : ImportResolve(i)
  \/ \E i \in Loads : ImportReject(i)
  \/ \E i \in Loads : Finally(i)
  \/ WatchFlush
  \/ ToastClosed

SpecOverlap == Init /\ [][NextOverlap]_vars

\* loadUrls(params, options) calls whose load may end without a selection
PollInputs ==
  BusInputs \cup
    { Input(<< Failure(<< error2 >>) >>, TRUE, "key1",
            "layoutName" :> "Axial Only") }

\* one load from the bus and its image-ID poll
NextPoll ==
  \/ LoadUrls(1, PollInputs)
  \/ ImportResolve(1)
  \/ ImportReject(1)
  \/ Finally(1)
  \/ WatchFlush
  \/ ToastClosed
  \/ AfterLoadedByBus(1)
  \/ PollTimer(1)

\* the 10 ms timer of a poll that is waiting fires
SpecPoll == Init /\ [][NextPoll]_vars /\ WF_vars(PollTimer(1))

\* the payloads a message or an emitted event carries, by type
PayloadsOf(type) ==
  CASE type = "load" ->
         { Input(AllSucceeded(<< "ct2" >>), TRUE, "key1",
                 [ layoutName |-> "Axial Only" ]),
           NoPayload }
    [] type = "savesegmentation" -> { Labelmap, NoPayload }
    [] type = "slicing" -> { Slice }
    [] OTHER -> { NoPayload }

\* the (peer1, peer2) pairs of the handshake messages: the local peer named
\* as peer2, as peer1, as both, and not at all
HandshakePairs ==
  { << tabPeerId, peerId >>, << peerId, comfyPeerId >>, << peerId, peerId >>,
    << tabPeerId, comfyPeerId >> }

\* the bridge and its peers: mounts and unmounts, handshakes, port events
NextBridge ==
  \/ Mount({ DefaultQuery })
  \/ Unmount
  \/ \E pair \in HandshakePairs : Handshake(pair[1], pair[2])
  \/ \E port \in Ports : PortClose(port)
  \/ \E port \in Ports, type \in MessageTypes :
       \E payload \in PayloadsOf(type) : PortMessage(port, type, payload)

SpecBridge == InitDefault /\ [][NextBridge]_vars

\* the bridge and its window: mounts and unmounts, the host getting ready,
\* handshakes, events emitted in the window
NextEmitter ==
  \/ Mount({ DefaultQuery })
  \/ Unmount
  \/ ElectronReady
  \/ \E g \in Instances : HostTimer(g)
  \/ \E peer1 \in { tabPeerId, comfyPeerId } : Handshake(peer1, peerId)
  \/ \E type \in Events : \E payload \in PayloadsOf(type) : Emit(type, payload)

SpecEmitter == InitDefault /\ [][NextEmitter]_vars

\* one view and one image: the initializer set up before or after the image
\* is loaded, presets picked, views reset
NextWindowing ==
  \/ \E tag \in TagValues, forced \in ForcedValues : WlSetup(tag, forced)
  \/ ImageLoaded
  \/ ImageUnloaded
  \/ \E percentile \in DOMAIN autoRangeValues : SetAutoRange(percentile)
  \/ ResetViewsClick

SpecWindowing == InitDefault /\ [][NextWindowing]_vars

\* the events the bridge forwards to its peers
Forwarded == { "savesegmentation", "slicing", "close" }

\* the bridge forwarding events: mounts and unmounts under each query,
\* handshakes with the tab and the pipeline, ports closing, events emitted
NextForward ==
  \/ Mount(Queries)
  \/ Unmount
  \/ \E peer1 \in { tabPeerId, comfyPeerId } : Handshake(peer1, peerId)
  \/ \E port \in Ports : PortClose(port)
  \/ \E type \in Forwarded : \E payload \in PayloadsOf(type) : Emit(type, payload)

SpecForward == InitDefault /\ [][NextForward]_vars

\* the DICOM-web client: concurrent fetchSeries and fetchInstance calls, each
\* settling in any order
NextClient ==
  \/ \E c \in Fetches : fetchSeries(c)
  \/ \E c \in Fetches : fetchInstance(c)
  \/ \E c \in Fetches : \E n \in 0..MaxSeries : SeriesRetrieved(c, n)
  \/ \E c \in Fetches : InstanceRetrieved(c)
  \/ \E c \in Fetches : RetrieveRejected(c)

SpecClient == InitDefault /\ [][NextClient]_vars

\* the pages a bridge is created on
NextPeer ==
  \/ \E page \in Pages : Navigate(page)
  \/ UseEventBus

SpecPeer == InitDefault /\ [][NextPeer]_vars

\* the state file written by up to MaxSerialize calls, each for up to
\* MaxBatch data IDs in any order
NextStateFile ==
  \E dataIDs \in DistinctSeqs(DataIDs, MaxBatch), dataType_ \in DatasetTypes :
    SerializeData(dataIDs, dataType_)

SpecStateFile == InitDefault /\ [][NextStateFile]_vars

\* loads from the bus for two keys, one of them failing, with their
\* image-ID polls
RaceInputs ==
  { Input(AllSucceeded(<< "ct2" >>), TRUE, "key1", "layoutName" :> "Axial Only"),
    Input(AllSucceeded(<< "scan" >>), TRUE, "key2", "s" :> "0"),
    Input(<< Failure(<< error2 >>) >>, TRUE, "key2", "s" :> "0") }

\* overlapping loads from the bus; the image-ID poll of the first is followed
NextRace ==
  \/ \E i \in Loads : LoadUrls(i, RaceInputs)
  \/ \E i \in Loads : ImportResolve(i)
  \/ \E i \in Loads : ImportReject(i)
  \/ \E i \in Loads : Finally(i)
  \/ WatchFlush
  \/ AfterLoadedByBus(1)
  \/ PollTimer(1)

SpecRace == InitDefault /\ [][NextRace]_vars

\* the datasets of a state file read in any order and in parallel
NextRemote ==
  \/ \E id \in Datasets : DeserializeDataset(id)
  \/ \E url \in Urls, ok \in BOOLEAN : RemoteFetchSettle(url, ok)
  \/ \E r \in Requests : GetFileResume(r)

SpecRemote == InitDefault /\ [][NextRemote]_vars

\* the slice store's calls, the selection and the session's initial slices in
\* any order; the timer of a poll under way fires in the end
NextSlice ==
  \/ \E id \in SliceSelections : SetPrimarySelection(id)
  \/ \E slices \in InitialSlices : SessionSlices("key1", slices)
  \/ \E viewID \in SliceViews, dataID \in SliceData, patch \in Patches :
       UpdateConfig(viewID, dataID, patch)
  \/ \E viewID \in SavedViews, config \in SavedConfigs :
       Deserialize(viewID, config)
  \/ \E viewID \in SliceViews, dataID \in SliceData :
       ResetSlice(viewID, dataID)
  \/ ResetTimer

SpecSlice == InitDefault /\ [][NextSlice]_vars /\ WF_vars(ResetTimer)

\* ================================================================ claims
\* What the claims speak of, stated without the operators of the model.
Min(S) == CHOOSE x \in S : \A y \in S : x <= y

RECURSIVE Flatten(_)
Flatten(ss) == IF ss = << >> THEN << >> ELSE Head(ss) \o Flatten(Tail(ss))

\* the loadable results of the sources of load i that succeeded, in batch order
Loadables(i) ==
  LET ok == SelectSeq(sources[i], LAMBDA r : r.ok)
      data == Flatten([ k \in 1..Len(ok) |-> ok[k].data ])
  IN  SelectSeq(data, LAMBDA id : Catalog[id].dataType \in { "dicom", "image", "model" })

Failed(i) == SelectSeq(sources[i], LAMBDA r : ~r.ok)

IsDicom(id) == Catalog[id].dataType = "dicom"
IsImage(id) == Catalog[id].dataType = "image"
NameOf(id) == Catalog[id].name
ModalityOf(id) == Catalog[id].Modality
SlicesOf(id) == Catalog[id].NumberOfSlices
StudyOf(id) == Catalog[id].StudyInstanceUID

\* CT = MR = 3 > US = 2 > DX = 1; 0: not a prioritized modality
ModalityPriority(id) ==
  IF ModalityOf(id) \in { CT, MR } THEN 3
  ELSE IF ModalityOf(id) = US THEN 2
  ELSE IF ModalityOf(id) = DX THEN 1
  ELSE 0

Prioritized(i) ==
  { id \in Range(Loadables(i)) : IsDicom(id) /\ ModalityPriority(id) > 0 }

\* name has token as a dot-separated component after the first
CarriesToken(name, token) ==
  /\ token # << >>
  /\ \E k \in 2..Len(name) :
       LET last == k + Len(token) - 1
       IN  /\ name[k - 1] = Dot
           /\ last <= Len(name)
           /\ SubSeq(name, k, last) = token
           /\ last = Len(name) \/ name[last + 1] = Dot

\* the substring before the first '.'
Prefix(name) ==
  LET dots == { k \in 1..Len(name) : name[k] = Dot }
  IN  IF dots = { } THEN name ELSE SubSeq(name, 1, Min(dots) - 1)

CallsOf(i, op) == SelectSeq(calls[i], LAMBDA c : c.op = op)

Registered(i, id) ==
  \E k \in 1..Len(calls[i]) :
    calls[i][k].op = "convertImageToLabelmap" /\ calls[i][k].a = id

Selected(i) == outcome[i] = "fulfilled" /\ primaryDataSource[i] # Undefined

\* C1: whenever a batch holds a DICOM volume of a prioritized modality, the
\* primary chosen is a DICOM volume whose modality priority is the highest
\* priority present in the batch.
C1_PrimaryHasHighestPriority ==
  \A i \in Loads :
    (outcome[i] = "fulfilled" /\ Prioritized(i) # { }) =>
      /\ primaryDataSource[i] \in Prioritized(i)
      /\ \A v \in Prioritized(i) :
           ModalityPriority(v) <= ModalityPriority(primaryDataSource[i])

\* C2: among the prioritized DICOM volumes of the batch that have the chosen
\* volume's priority, the chosen one has the largest NumberOfSlices, and it
\* lacks NumberOfSlices only if all of them lack it.
C2_MostSlicesAmongEqualPriority ==
  \A i \in Loads :
    (outcome[i] = "fulfilled" /\ Prioritized(i) # { }) =>
      LET p == primaryDataSource[i]
      IN  /\ p \in Prioritized(i)
          /\ \A v \in Prioritized(i) :
               (ModalityPriority(v) = ModalityPriority(p) /\ SlicesOf(v) > 0) =>
                 (SlicesOf(p) > 0 /\ SlicesOf(p) >= SlicesOf(v))

C2_Witness ==
  /\ outcome[1] = "fulfilled"
  /\ Loadables(1) = << "ct0", "ct1", "ct2" >>
  /\ primaryDataSource[1] = "ct2"

\* the first result for which P holds, or none
FirstOr(L, P(_), none) ==
  LET hits == { k \in 1..Len(L) : P(L[k]) }
  IN  IF hits = { } THEN none ELSE L[Min(hits)]

FirstLoadable(i) == IF Len(Loadables(i)) > 0 THEN Loadables(i)[1] ELSE Undefined

\* C3 as claimed: without a prioritized DICOM volume the base data source is
\* the first image whose name does not carry the segmentation token, else the
\* first loadable result.
C3_FirstImageWithoutToken ==
  \A i \in Loads :
    (outcome[i] = "fulfilled" /\ Prioritized(i) = { }) =>
      primaryDataSource[i] =
        FirstOr(Loadables(i),
                LAMBDA id : IsImage(id)
                            /\ ~CarriesToken(NameOf(id), segmentGroupExtension),
                FirstLoadable(i))

\* C3 amended: without a prioritized DICOM volume the base data source is the
\* first image that has a non-empty name which does not carry the
\* segmentation token, else the first loadable result.
C3_FirstNamedImageWithoutToken ==
  \A i \in Loads :
    (outcome[i] = "fulfilled" /\ Prioritized(i) = { }) =>
      primaryDataSource[i] =
        FirstOr(Loadables(i),
                LAMBDA id : IsImage(id)
                            /\ NameOf(id) # << >>
                            /\ ~CarriesToken(NameOf(id), segmentGroupExtension),
                FirstLoadable(i))

C3_Witness ==
  /\ outcome[1] = "fulfilled"
  /\ segmentGroupExtension = seg
  /\ Loadables(1) = << "scanSeg", "unnamed", "segNii" >>
  /\ primaryDataSource[1] = "segNii"

\* C4: for a DICOM primary, addLayer is called exactly when the primary's
\* Modality is CT and another DICOM volume of the batch in the primary's
\* study has Modality PT; then once, with the first such volume.
C4_OnePetLayerOnCt ==
  \A i \in Loads :
    (Selected(i) /\ IsDicom(primaryDataSource[i])) =>
      LET p == primaryDataSource[i]
          L == Loadables(i)
          pets == { k \in 1..Len(L) :
                      /\ IsDicom(L[k])
                      /\ L[k] # p
                      /\ StudyOf(L[k]) = StudyOf(p)
                      /\ ModalityOf(L[k]) = PT }
      IN  CallsOf(i, "addLayer") =
            IF ModalityOf(p) = CT /\ pets # { }
              THEN << Call("addLayer", p, L[Min(pets)]) >>
              ELSE << >>

C4_Witness ==
  /\ outcome[1] = "fulfilled"
  /\ Loadables(1) = << "pt3", "ct1", "pt1" >>
  /\ CallsOf(1, "addLayer") = << Call("addLayer", "ct1", "pt1") >>

\* C5 as claimed: a non-primary image is registered as a segmentation exactly
\* when its name carries the token and its filename prefix equals the
\* primary's filename prefix.
C5_RegisteredIffSamePrefix ==
  \A i \in Loads :
    (Selected(i) /\ (IsDicom(primaryDataSource[i]) \/ IsImage(primaryDataSource[i]))) =>
      \A id \in Range(Loadables(i)) :
        (IsImage(id) /\ id # primaryDataSource[i]) =>
          (Registered(i, id) <=>
             /\ CarriesToken(NameOf(id), segmentGroupExtension)
             /\ Prefix(NameOf(id)) = Prefix(NameOf(primaryDataSource[i])))

\* C5 amended: a non-primary image is registered as a segmentation by name
\* exactly when the primary has a non-empty name, the image's name carries the
\* token and the image's name starts with the primary's filename prefix.
C5_RegisteredIffStartsWithPrefix ==
  \A i \in Loads :
    (Selected(i) /\ (IsDicom(primaryDataSource[i]) \/ IsImage(primaryDataSource[i]))) =>
      \A id \in Range(Loadables(i)) :
        (IsImage(id) /\ id # primaryDataSource[i]) =>
          (Registered(i, id) <=>
             LET prefix == Prefix(NameOf(primaryDataSource[i]))
             IN  /\ NameOf(primaryDataSource[i]) # << >>
                 /\ CarriesToken(NameOf(id), segmentGroupExtension)
                 /\ Len(prefix) <= Len(NameOf(id))
                 /\ SubSeq(NameOf(id), 1, Len(prefix)) = prefix)

C5_Witness ==
  /\ outcome[1] = "fulfilled"
  /\ segmentGroupExtension = seg
  /\ Loadables(1) = << "scan", "scannerSeg", "otherSeg" >>
  /\ primaryDataSource[1] = "scan"
  /\ Registered(1, "scannerSeg")
  /\ ~Registered(1, "otherSeg")

OkSources(i) == SelectSeq(sources[i], LAMBDA r : r.ok)

SelectionCallsOf(i) ==
  SelectSeq(calls[i],
            LAMBDA c : c.op \in { "setPrimarySelection", "addLayer",
                                  "convertImageToLabelmap" })

\* C6: when some sources of a batch failed and others succeeded, the load
\* makes the selection, layer and segmentation calls that the succeeded
\* sources give, and records one aggregate error.
C6_PartialFailureStillSelects ==
  \A i \in Loads :
    (outcome[i] = "fulfilled" /\ Failed(i) # << >> /\ OkSources(i) # << >>) =>
      /\ primaryDataSource[i] \in
           findBaseDataSource(OkSources(i), segmentGroupExtension)
      /\ SelectionCallsOf(i) = selectionCalls(primaryDataSource[i], OkSources(i))
      /\ CallsOf(i, "setError") =
           << Call("setError", "These files failed to load:", "") >>

C6_Witness ==
  /\ outcome[1] = "fulfilled"
  /\ Len(Failed(1)) = 2
  /\ primarySelection = "ct1"
  /\ SelectionCallsOf(1) = << Call("setPrimarySelection", "ct1", ""),
                              Call("addLayer", "ct1", "pt2") >>
  /\ loadingError.kind = "These files failed to load:"
  /\ Len(loadingError.lines) = 2

StartCall == Call("startLoading", "", "")
StopCall == Call("stopLoading", "", "")
RejectedCall == Call("setError", "import rejected", "")

\* C7: a load whose import rejects records one error and makes no other store
\* call; the step that handles the rejection leaves the primary selection and
\* the layout as they were; the load still decrements the loading counter
\* when it ends.
C7_RejectedImportAppliesNothing ==
  /\ [](\A i \in Loads :
          outcome[i] = "rejected" =>
            /\ primaryDataSource[i] = Undefined
            /\ calls[i] = IF pc[i] = "finished"
                            THEN << StartCall, RejectedCall, StopCall >>
                            ELSE << StartCall, RejectedCall >>)
  /\ [][\A i \in Loads :
          /\ (outcome[i] = "pending" /\ outcome'[i] = "rejected") =>
               /\ primarySelection' = primarySelection
               /\ layout' = layout
               /\ loadingError' = [ kind |-> "import rejected", lines |-> << >> ]
          /\ (outcome[i] = "rejected" /\ pc[i] = "loaded" /\ pc'[i] = "finished") =>
               loadingCount' = loadingCount - 1]_vars

C7_Witness ==
  /\ outcome[1] = "fulfilled"
  /\ outcome[2] = "rejected"
  /\ pc[2] = "finished"
  /\ primarySelection = "ct2"
  /\ layout = "default"
  /\ loadingCount = 0

\* C8: the loading counter is never negative, and a stopLoading call made
\* when the counter is 0 leaves it at 0.
C8_CounterNeverNegative ==
  /\ [](loadingCount >= 0)
  /\ [][(loadingCount = 0 /\ apiStops' = apiStops + 1) => loadingCount' = 0]_vars

C8_Witness ==
  /\ apiStops > apiStarts
  /\ \A i \in Loads : pc[i] = "idle"
  /\ loadingCount = 0

InFlight == { i \in Loads : pc[i] \in { "importing", "loaded" } }

\* C9: each load has incremented the loading counter once before its import
\* starts and decrements it once when it ends, so the counter is the number of
\* loads in flight: isLoading holds while a load is in flight, and the counter
\* is 0 when none is.
C9_CounterCountsLoadsInFlight ==
  /\ loadingCount = Cardinality(InFlight)
  /\ InFlight # { } => isLoading
  /\ InFlight = { } => (loadingCount = 0 /\ ~isLoading)
  /\ \A i \in Loads :
       /\ pc[i] = "importing" => calls[i] = << StartCall >>
       /\ pc[i] # "idle" =>
            (CallsOf(i, "startLoading") = << StartCall >> /\ calls[i][1] = StartCall)
       /\ pc[i] # "finished" => CallsOf(i, "stopLoading") = << >>
       /\ pc[i] = "finished" =>
            (CallsOf(i, "stopLoading") = << StopCall >>
             /\ calls[i][Len(calls[i])] = StopCall)

C9_Witness ==
  /\ pc[1] = "finished"
  /\ outcome[1] = "rejected"
  /\ pc[2] = "loaded"
  /\ outcome[2] = "fulfilled"
  /\ loadingCount = 1
  /\ isLoading

\* the notification on screen
Notification == IF toastOpen THEN toastContent ELSE "none"

\* C10: when the watcher sees the counter leave 0 the notification changes to
\* 'loading'; a change between positive values changes no notification; when
\* it sees the counter back at 0 there is one terminal notification (success
\* shown, or the error reported).
C10_OneLoadingOneTerminalNotification ==
  [][/\ (watched = 0 /\ watched' > 0) =>
          (Notification # "Loading" /\ Notification' = "Loading"
           /\ messages' = messages)
     /\ (watched > 0 /\ watched' > 0) =>
          (Notification' = Notification /\ messages' = messages)
     /\ (watched > 0 /\ watched' = 0) =>
          \/ (Notification = "Loading" /\ Notification' = "Done"
              /\ messages' = messages)
          \/ (Notification = "Loading" /\ Notification' = "none"
              /\ Len(messages') = Len(messages) + 1)]_vars

\* C11: whenever the watcher sees the counter back at 0, the error recorded
\* during the loading period is reported (or, when there is none, the success
\* notification is shown), and no error stays recorded.
C11_EveryReturnToZeroIsReported ==
  [][(watched > 0 /\ watched' = 0) =>
       /\ loadingError' = NoError
       /\ IF loadingError # NoError
            THEN messages' = Append(messages, loadingError)
            ELSE Notification' = "Done" /\ messages' = messages]_vars

RecordOf(table, key) == IF key \in DOMAIN table THEN table[key] ELSE << >>

\* C12: setLoadedByBus(key, partial) gives the fields of partial their new
\* values in the record of key and keeps every other field of that record;
\* the records of other keys stay; a call with an undefined key changes
\* nothing; and two partial updates of disjoint fields give the same record
\* in either order.
C12_MergeKeepsUntouchedFields ==
  /\ [][busCall' # busCall =>
          LET key == busCall'.key
              partial == busCall'.value
              old == RecordOf(loadedByBus, key)
          IN  /\ key = "" => loadedByBus' = loadedByBus
              /\ key # "" =>
                   /\ DOMAIN loadedByBus' = DOMAIN loadedByBus \cup { key }
                   /\ \A k \in DOMAIN loadedByBus \ { key } :
                        loadedByBus'[k] = loadedByBus[k]
                   /\ DOMAIN loadedByBus'[key] = DOMAIN old \cup DOMAIN partial
                   /\ \A f \in DOMAIN partial : loadedByBus'[key][f] = partial[f]
                   /\ \A f \in DOMAIN old \ DOMAIN partial :
                        loadedByBus'[key][f] = old[f]]_vars
  /\ [](\A key \in BusKeys, p, q \in Partials :
          DOMAIN p \cap DOMAIN q = {} =>
            setLoadedByBusIn(setLoadedByBusIn(loadedByBus, key, p), key, q)
              = setLoadedByBusIn(setLoadedByBusIn(loadedByBus, key, q), key, p))

C12_Witness ==
  /\ "key1" \in DOMAIN loadedByBus
  /\ "key2" \in DOMAIN loadedByBus
  /\ busCall = [ key |-> "key1", value |-> [ s |-> "0" ] ]
  /\ loadedByBus["key1"] = [ layoutName |-> "Axial Only", s |-> "0" ]

StartsImport(i) ==
  pc[i] \in { "idle", "fetching" } /\ pc'[i] = "importing"

C14_RecordExistsWhileSuspended ==
  \A i \in Loads :
    (volumeKeySuffix[i] # "" /\ pc[i] \in { "fetching", "importing" }) =>
      volumeKeySuffix[i] \in DOMAIN loadedByBus

\* the getImageID calls load i has made
Attempts(i) == Len(CallsOf(i, "getImageID"))

\* C15: the poll of a load with a key makes at most 100 attempts and then
\* ends; a poll step records no error; a poll that never saw the image ID
\* leaves the record without imageID, and one that saw it has merged it into
\* the record, whose other fields keep their values.
C15_PollEndsWithinHundredAttempts ==
  /\ [](/\ Attempts(1) <= 100
        /\ pc[1] = "done" /\ selection[1] # Null =>
             LET record == loadedByBus[volumeKeySuffix[1]]
             IN  /\ imageID[1] = Undefined =>
                      /\ Attempts(1) = 100
                      /\ "imageID" \notin DOMAIN record
                      /\ CallsOf(1, "setLoadedByBus") = << >>
                 /\ imageID[1] # Undefined =>
                      /\ "imageID" \in DOMAIN record
                      /\ record["imageID"] = imageID[1]
                      /\ imageID[1] = selection[1]
                      /\ \A f \in DOMAIN loadOptions[1] :
                           f \in DOMAIN record /\ record[f] = loadOptions[1][f])
  /\ [][pc[1] \in { "finished", "polling" } /\ pc'[1] \in { "polling", "done" } =>
          loadingError' = loadingError /\ messages' = messages]_vars
  /\ (pc[1] = "polling" ~> pc[1] = "done")

C15_Witness ==
  /\ pc[1] = "done"
  /\ selection[1] = "ct2"
  /\ imageID[1] = Undefined
  /\ Attempts(1) = 100
  /\ loadedByBus["key1"] = [ layoutName |-> "Axial Only" ]

\* C16: a load calls setPrimarySelection at most once, makes no selection or
\* linking call while its import is pending, and its primary is the one the
\* whole batch of its succeeded sources gives.
C16_SelectionOnceAfterWholeBatch ==
  \A i \in Loads :
    /\ Len(CallsOf(i, "setPrimarySelection")) <= 1
    /\ outcome[i] \in { "none", "pending", "rejected" } =>
         SelectionCallsOf(i) = << >>
    /\ SelectionCallsOf(i) # << >> =>
         /\ outcome[i] = "fulfilled"
         /\ primaryDataSource[i] \in
              findBaseDataSource(OkSources(i), segmentGroupExtension)
         /\ CallsOf(i, "setPrimarySelection") =
              << Call("setPrimarySelection", primaryDataSource[i], "") >>

C16_Witness ==
  /\ outcome[1] = "fulfilled"
  /\ Len(OkSources(1)) = 2
  /\ CallsOf(1, "setPrimarySelection") = << Call("setPrimarySelection", "ct2", "") >>
  /\ outcome[2] = "pending"
  /\ Len(sources[2]) = 4
  /\ SelectionCallsOf(2) = << >>

\* the step is the import of load i resolving
Resolves(i) == outcome[i] = "pending" /\ outcome'[i] = "fulfilled"

\* a volume is among the succeeded results of load i
HasVolume(i) ==
  \E k \in 1..Len(Loadables(i)) :
    IsDicom(Loadables(i)[k]) \/ IsImage(Loadables(i)[k])

\* the base data sources the succeeded results of load i can give
Base(i) == findBaseDataSource(OkSources(i), segmentGroupExtension)

\* C17 as claimed: the primary selection changes only when an import
\* resolves, and the step in which the import of a load with a succeeded
\* volume resolves sets the primary selection to a volume of that load, so
\* that the load that resolved last has set the selection.
C17_LastResolvedVolumeLoadSelects ==
  [][/\ primarySelection' # primarySelection => \E i \in Loads : Resolves(i)
     /\ \A i \in Loads :
          (Resolves(i) /\ HasVolume(i)) =>
            /\ primarySelection' = primaryDataSource'[i]
            /\ IsDicom(primarySelection') \/ IsImage(primarySelection')]_vars

\* C17 amended: the primary selection changes only when an import resolves;
\* the step in which the import of a load resolves sets the primary selection
\* to the base data source of that load's succeeded results when that is a
\* volume, whatever the selection was, and leaves it when the base data source
\* is not a volume or nothing succeeded.
C17_LastResolvedVolumeBaseSelects ==
  [][/\ primarySelection' # primarySelection => \E i \in Loads : Resolves(i)
     /\ \A i \in Loads :
          Resolves(i) =>
            IF OkSources(i) # << >> /\
               \A b \in Base(i) : IsDicom(b) \/ IsImage(b)
              THEN primarySelection' \in Base(i)
              ELSE primarySelection' = primarySelection]_vars

C17_Witness ==
  /\ pc[1] = "loaded"
  /\ pc[2] = "finished"
  /\ primaryDataSource[1] = "ct2"
  /\ primaryDataSource[2] = "scan"
  /\ primarySelection = "ct2"

\* the owners of the 'message' listeners installed
ListenerSet == { listeners[k] : k \in 1..Len(listeners) }

\* the step hands a 'response-message-port' message to the listeners
HandshakeStep == portCount' = portCount + 1

\* the step closes port p
CloseStep(p) == portOpen[p] /\ ~portOpen'[p]

\* C18: a 'response-message-port' message that names the local peer as peer1
\* stores its port under peer2's ID, one that names it as peer2 stores it under
\* peer1's ID, one that names neither changes no registry; closing a port
\* removes exactly the entry keyed by the other-peer ID its closures captured;
\* no other step changes a registry.
C18_PortStoredUnderOtherPeer ==
  [][/\ HandshakeStep =>
          LET m == lastEvent'.received
              port == portCount'
          IN  \A g \in Instances :
                ports'[g] =
                  IF g \in ListenerSet /\ peerId = m.peer1
                    THEN [ ports[g] EXCEPT ![m.peer2] = port ]
                    ELSE IF g \in ListenerSet /\ peerId = m.peer2
                           THEN [ ports[g] EXCEPT ![m.peer1] = port ]
                           ELSE ports[g]
     /\ \A p \in Ports :
          CloseStep(p) =>
            LET h == portHandlers[p]
                other == IF peerId = h.peer1 THEN h.peer2 ELSE h.peer1
            IN  ports' = [ ports EXCEPT ![h.instance][other] = 0 ]
     /\ ports' # ports => HandshakeStep \/ \E p \in Ports : CloseStep(p)]_vars

C18_Witness ==
  /\ lastEvent.via = "port"
  /\ lastEvent.type = "close"
  /\ portHandlers[lastEvent.port].peer2 = peerId
  /\ portHandlers[lastEvent.port].peer1 = tabPeerId
  /\ ports[1][tabPeerId] = 0
  /\ ports[1][comfyPeerId] \in Ports
  /\ portHandlers[ports[1][comfyPeerId]].peer1 = peerId

\* the step delivers a message to the onmessage handler of a port
MessageStep ==
  /\ lastEvent' # lastEvent
  /\ lastEvent'.via = "port"
  /\ lastEvent'.type \in MessageTypes

Relayed == { "load", "unload", "unselect" }

\* C19 as claimed: on every port the handshake stored, a 'load' message is
\* emitted as 'load' with its payload, 'unload' as 'unload' and 'unselect' as
\* 'unselect'; a message of another type emits nothing; no message raises an
\* error.
C19_EveryPortRelays ==
  [][MessageStep =>
       /\ ~lastEvent'.thrown
       /\ lastEvent'.emitted <=> lastEvent'.type \in Relayed
       /\ lastEvent'.type = "load" => lastEvent'.payload = lastEvent'.received]_vars

\* C19 amended: on a port whose handshake named the local peer as peer2, a
\* 'load' message is emitted as 'load' with its payload and 'unload' and
\* 'unselect' as themselves without a payload, each handler registered for the
\* event running once, as long as window.$bus is set; when it is not, these
\* three raise an error and emit nothing. A message of another type, and every
\* message on a port whose handshake named the local peer as peer1 only, emits
\* nothing and raises no error.
C19_Peer2PortRelaysWhileMounted ==
  [][MessageStep =>
       LET e == lastEvent'
           h == portHandlers[e.port]
       IN  IF h.peer2 = peerId /\ e.type \in Relayed
             THEN IF windowBus
                    THEN /\ e.emitted /\ ~e.thrown
                         /\ e.payload = IF e.type = "load" THEN e.received
                                                            ELSE NoPayload
                         /\ e.invoked = Len(emitter[e.type])
                    ELSE e.thrown /\ ~e.emitted /\ e.invoked = 0
             ELSE ~e.emitted /\ ~e.thrown /\ e.invoked = 0]_vars

C19_Witness ==
  /\ lastEvent.via = "port"
  /\ lastEvent.type = "load"
  /\ portHandlers[lastEvent.port].peer1 = tabPeerId
  /\ lastEvent.emitted
  /\ lastEvent.invoked = 1
  /\ "sources" \in DOMAIN lastEvent.payload
  /\ pc[1] = "importing"

\* C20: for each of load, unload, unselect, savesegmentation, slicing and
\* close, one bridge handler is registered while the bridge is mounted and
\* none while it is not, whatever mounts and unmounts came before, so that an
\* emitted event runs its handler at most once.
C20_OneHandlerWhileMounted ==
  /\ \A e \in Events : Len(emitter[e]) = IF mounted THEN 1 ELSE 0
  /\ lastEvent.emitted => lastEvent.invoked = IF mounted THEN 1 ELSE 0

C20_Witness ==
  /\ instance = MaxMounts
  /\ mounted
  /\ lastEvent.via = "emitter"
  /\ lastEvent.type = "close"
  /\ lastEvent.invoked = 1
  /\ lastEvent.posted # << >>

\* the requestMessagePort calls of the useEventBus call g
RequestsOf(g) == SelectSeq(requested, LAMBDA r : r.instance = g)

\* the useEventBus call g is the one of the mounted component
Live(g) == mounted /\ instance = g

\* C21: the wait for the host started at mount does not outlive the bridge:
\* the wait of a useEventBus call ends, and its requestMessagePort call is
\* made, only while its component is mounted.
C21_NoRequestAfterUnmount ==
  [][\A g \in Instances :
       /\ Len(RequestsOf(g))' > Len(RequestsOf(g)) => Live(g)'
       /\ (g \in waiting /\ g \notin waiting') => Live(g)']_vars

\* C22: not embedded, a useEventBus call makes no requestMessagePort call
\* while window.$electron is not set, keeps waiting for as long as it is not,
\* and makes at most one call, with peer1 the 'tab-project-' form of the local
\* peer ID and peer2 the local peer ID; embedded, it makes none.
C22_OneRequestOnceHostReady ==
  [][\A g \in Instances :
       /\ Len(RequestsOf(g))' <= 1
       /\ \A k \in 1..Len(requested') :
            requested'[k].peer1 = tabPeerId /\ requested'[k].peer2 = peerId
       /\ requested' # requested => electron /\ embedded' = "no"
       /\ (g \in waiting /\ g \notin waiting') => electron
       /\ (g \in waiting /\ ~electron') => g \in waiting']_vars

C22_Witness ==
  /\ Len(requested) = 2
  /\ requested[1].instance = 1
  /\ requested[2].instance = 2
  /\ waiting = { }
  /\ mounted

\* the step is the mount of a component that calls useEventBus
MountStep == instance' = instance + 1

\* C23: a mount in a parent frame posts 'volview:LOAD' to the parent, installs
\* no 'message' listener and starts no wait for the host; a mount outside a
\* frame posts nothing to a parent and installs the listener.
C23_FrameMountPostsLoad ==
  [][MountStep =>
       IF embedded' = "yes"
         THEN /\ lastEvent'.posted = << [ to |-> 0, type |-> "volview:LOAD" ] >>
              /\ listeners' = << >>
              /\ waiting' = { }
              /\ requested' = << >>
         ELSE /\ lastEvent'.posted = << >>
              /\ listeners' = Append(listeners, instance')]_vars

C23_Witness ==
  /\ embedded = "yes"
  /\ instance = 2
  /\ mounted
  /\ lastEvent.via = "mount"
  /\ lastEvent.posted # << >>

\* the step emits an event of the given type in this window
EmitStep(type) ==
  /\ lastEvent' # lastEvent
  /\ lastEvent'.via = "emitter"
  /\ lastEvent'.type = type

\* the port the mounted bridge has registered under a peer ID (0 = none)
PortUnder(peer) == IF mounted THEN ports[instance][peer] ELSE 0

\* C24: a 'savesegmentation' event is forwarded only with pipelineId and
\* manualNodeId in the query and a labelmap path in the payload, as one
\* 'created-segmentation' message { pipelineId, manualNodeId, oid, labelmap },
\* through the port registered under 'comfyui-<pipelineId>' if there is one,
\* else to the parent if the window is in a frame, else not at all; never
\* to both.
C24_SegmentationForwardedOnce ==
  [][EmitStep("savesegmentation") =>
       LET e == lastEvent'
           complete ==
             /\ mounted
             /\ query.pipelineId # ""
             /\ query.manualNodeId # ""
             /\ "data" \in DOMAIN e.payload
           message(to) ==
             [ to |-> to, type |-> "created-segmentation",
               payload |-> [ pipelineId |-> query.pipelineId,
                             manualNodeId |-> query.manualNodeId,
                             oid |-> query.uid,
                             labelmap |-> e.payload.data.path ] ]
       IN  /\ Len(e.posted) <= 1
           /\ ~e.thrown
           /\ e.posted =
                IF complete /\ PortUnder(comfyPeerId) # 0
                  THEN << message(PortUnder(comfyPeerId)) >>
                  ELSE IF complete /\ embedded = "yes"
                         THEN << message(0) >>
                         ELSE << >>]_vars

\* a labelmap was forwarded through the port of the pipeline's peer
C24_Witness ==
  /\ lastEvent.via = "emitter"
  /\ lastEvent.type = "savesegmentation"
  /\ lastEvent.posted # << >>
  /\ lastEvent.posted[1].to \in Ports
  /\ lastEvent.posted[1].payload.labelmap = "seg.nii"
  /\ ports[instance][tabPeerId] # 0

\* C25: 'slicing' and 'close' events are forwarded only through the port
\* registered under the 'tab-project-' form of the local peer ID, as
\* { type: 'slicing', payload } and { type: 'close' }, to no other registered
\* port; with no port under that key, never registered or removed on close,
\* the event is dropped without error.
C25_SlicingAndCloseToTabPort ==
  [][\A type \in { "slicing", "close" } :
       EmitStep(type) =>
         LET e == lastEvent'
         IN  /\ ~e.thrown
             /\ e.posted =
                  IF PortUnder(tabPeerId) # 0
                    THEN IF type = "slicing"
                           THEN << [ to |-> PortUnder(tabPeerId),
                                     type |-> "slicing", payload |-> e.payload ] >>
                           ELSE << [ to |-> PortUnder(tabPeerId),
                                     type |-> "close" ] >>
                    ELSE << >>]_vars

\* a slice was forwarded to the tab's port with the pipeline's port registered
C25_Witness ==
  /\ lastEvent.via = "emitter"
  /\ lastEvent.type = "slicing"
  /\ mounted
  /\ lastEvent.posted =
       << [ to |-> ports[instance][tabPeerId], type |-> "slicing",
            payload |-> Slice ] >>
  /\ ports[instance][comfyPeerId] \in Ports
  /\ ports[instance][comfyPeerId] # ports[instance][tabPeerId]

\* the store calls the claimed precedence makes for a tag and a forced value
Precedence(tag, forced) ==
  << WlCall("updateConfig",
            [ min |-> autoRangeValues[WL_AUTO_DEFAULT][1],
              max |-> autoRangeValues[WL_AUTO_DEFAULT][2] ]) >>
  \o (IF tag # << >> /\ tag[1].width # 0
        THEN << WlCall("updateConfig", [ preset |-> tag[1] ]) >> ELSE << >>)
  \o (IF forced # << >>
        THEN << WlCall("updateConfig", [ preset |-> forced[1] ]) >> ELSE << >>)
  \o << WlCall("resetWindowLevel", NoPatch) >>

\* the step makes the image available to an initializer whose view and image
\* have no config: the initializer is set up with the image there, or the
\* image is loaded with the initializer set up
BecomesAvailable ==
  /\ windowConfig = << >>
  /\ wlSetup' /\ imageData'
  /\ ~wlSetup \/ ~imageData

\* C26: whenever an image becomes available for a view and image without a
\* windowing config, already there at set-up or loaded later, the initializer
\* makes the calls of the precedence: min/max from the auto range of the
\* preset, the preset from the tag's first window level if it has one, the
\* preset from the forced window level if there is one, then
\* resetWindowLevel.
C26_PrecedenceWheneverAvailable ==
  [][BecomesAvailable =>
       /\ wlCalls' = Precedence(firstTag', runtimeConfigWindowLevel')
       /\ windowConfig' # << >>
       /\ windowConfig'[1].min = autoRangeValues[WL_AUTO_DEFAULT][1]]_vars

\* the DICOM-web fetch of load i was rejected: it goes on without files
FetchFailed(i) == pc[i] \notin { "idle", "fetching" } /\ sources[i] = << >>

\* C27: a rejected fetchInstance or fetchSeries inside loadUrls is caught:
\* the load goes on to its import with an empty file set, the fetch failure
\* records no load error and shows no message, and the load, once its import
\* has resolved, has reported no error and selected nothing.
C27_FetchFailureIsSwallowed ==
  [][\A i \in Loads :
       /\ (pc[i] = "fetching" /\ pc'[i] # "fetching") =>
            /\ pc'[i] = "importing"
            /\ outcome'[i] = "pending"
            /\ sources'[i] \in { << >>, sources[i] }
            /\ loadingError' = loadingError
            /\ messages' = messages
            /\ loadingCount' = loadingCount + 1
       /\ (FetchFailed(i)' /\ outcome'[i] = "fulfilled") =>
            /\ CallsOf(i, "setError")' = << >>
            /\ primaryDataSource'[i] = Undefined]_vars

C27_Witness ==
  \E i \in Loads :
    /\ FetchFailed(i)
    /\ volumeKeySuffix[i] = "key1"
    /\ outcome[i] = "fulfilled"
    /\ pc[i] = "finished"
    /\ loadingError = NoError

\* the number in a file name of the client's form (0: not of that form)
MaxFiles == MaxFetches * MaxSeries
CounterOf(name) ==
  IF \E n \in 1..MaxFiles : name = "dicom-web." \o ToString(n) \o ".dcm"
    THEN CHOOSE n \in 1..MaxFiles : name = "dicom-web." \o ToString(n) \o ".dcm"
    ELSE 0

\* C28: every file the DICOM-web client makes, through fetchSeries or
\* fetchInstance and however the calls interleave, is named
\* 'dicom-web.<n>.dcm' with n greater than the n of every file made before
\* it, so no two files share a name; each call returns files it made.
C28_FileNamesIncrease ==
  /\ \A k \in 1..Len(files) : CounterOf(files[k]) > 0
  /\ \A j, k \in 1..Len(files) :
       j < k => CounterOf(files[j]) < CounterOf(files[k])
  /\ \A j, k \in 1..Len(files) : j # k => files[j] # files[k]
  /\ \A c \in Fetches : \A k \in 1..Len(fetches[c].returned) :
       \E j \in 1..Len(files) : files[j] = fetches[c].returned[k]
  /\ \A c, d \in Fetches :
       \A j \in 1..Len(fetches[c].returned), k \in 1..Len(fetches[d].returned) :
         (c # d \/ j # k) => fetches[c].returned[j] # fetches[d].returned[k]

\* a series of two files settled after an instance fetch that was started
\* later, and a third call failed
C28_Witness ==
  /\ Len(fetches[1].returned) = 2
  /\ Len(fetches[2].returned) = 1
  /\ CounterOf(fetches[2].returned[1]) < CounterOf(fetches[1].returned[1])
  /\ fetches[3].state = "rejected"
  /\ Len(files) = 3

\* the succeeded results of load i hold a model and neither image nor DICOM
OnlyModels(i) ==
  /\ \E k \in 1..Len(Loadables(i)) : Catalog[Loadables(i)[k]].dataType = "model"
  /\ ~HasVolume(i)

\* C29: a load whose batch has a model and no image or DICOM volume has a
\* model as its base data source and calls neither setPrimarySelection nor
\* addLayer nor convertImageToLabelmap; whatever a load selects is an image
\* or a DICOM volume.
C29_ModelBaseSelectsNothing ==
  /\ \A i \in Loads :
       /\ (outcome[i] = "fulfilled" /\ OnlyModels(i)) =>
            /\ Catalog[primaryDataSource[i]].dataType = "model"
            /\ SelectionCallsOf(i) = << >>
       /\ \A k \in 1..Len(calls[i]) :
            calls[i][k].op = "setPrimarySelection" =>
              IsDicom(calls[i][k].a) \/ IsImage(calls[i][k].a)
  /\ primarySelection # Null =>
       IsDicom(primarySelection) \/ IsImage(primarySelection)

\* a model loaded beside a configuration file: the load ends with the model
\* as its base data source and nothing selected
C29_Witness ==
  /\ outcome[1] = "fulfilled"
  /\ pc[1] = "finished"
  /\ Len(sources[1]) = 2
  /\ Loadables(1) = << "mesh" >>
  /\ primaryDataSource[1] = "mesh"
  /\ SelectionCallsOf(1) = << >>
  /\ primarySelection = Null

\* the DICOM volumes of load i, other than its primary, of the primary's
\* study and with Modality 'SEG' once the blanks around it are dropped, in
\* batch order
SegVolumesInStudy(i) ==
  SelectSeq(Loadables(i),
            LAMBDA id :
              /\ IsDicom(id)
              /\ id # primaryDataSource[i]
              /\ StudyOf(id) = StudyOf(primaryDataSource[i])
              /\ SelectSeq(ModalityOf(id), LAMBDA ch : ch # Space) = SEG)

\* the volumes of load i, other than its primary, whose name carries the
\* token and starts with the primary's filename prefix, in batch order
NameMatched(i) ==
  LET prefix == Prefix(NameOf(primaryDataSource[i]))
  IN  SelectSeq(Loadables(i),
                LAMBDA id :
                  /\ IsDicom(id) \/ IsImage(id)
                  /\ id # primaryDataSource[i]
                  /\ NameOf(primaryDataSource[i]) # << >>
                  /\ CarriesToken(NameOf(id), segmentGroupExtension)
                  /\ Len(prefix) <= Len(NameOf(id))
                  /\ SubSeq(NameOf(id), 1, Len(prefix)) = prefix)

\* C30: the convertImageToLabelmap calls of a load are, in this order, one
\* per other DICOM volume of the primary's study with trimmed Modality 'SEG'
\* (in batch order), then one per name-matched candidate (in batch order);
\* each is made for the primary, and none registers the primary itself.
C30_StudySegsBeforeNameMatches ==
  \A i \in Loads :
    (Selected(i) /\ (IsDicom(primaryDataSource[i]) \/ IsImage(primaryDataSource[i]))) =>
      LET registered == CallsOf(i, "convertImageToLabelmap")
          expected == SegVolumesInStudy(i) \o NameMatched(i)
      IN  /\ Len(registered) = Len(expected)
          /\ \A k \in 1..Len(registered) :
               /\ registered[k].a = expected[k]
               /\ registered[k].b = primaryDataSource[i]
               /\ registered[k].a # primaryDataSource[i]

\* a SEG volume of the primary's study comes last in the batch, a SEG volume
\* of another study that matches by name comes first
C30_Witness ==
  /\ outcome[1] = "fulfilled"
  /\ segmentGroupExtension = seg
  /\ Loadables(1) = << "seg2", "ct1", "seg1" >>
  /\ primaryDataSource[1] = "ct1"
  /\ SegVolumesInStudy(1) = << "seg1" >>
  /\ NameMatched(1) = << "seg2", "seg1" >>
  /\ Len(CallsOf(1, "convertImageToLabelmap")) = 3

\* how often load i passed id to convertImageToLabelmap
TimesRegistered(i, id) ==
  Len(SelectSeq(CallsOf(i, "convertImageToLabelmap"), LAMBDA c : c.a = id))

\* C31: loadSegmentations does not de-duplicate its two candidate lists: a
\* result that is a same-study SEG volume and matches by name is passed to
\* convertImageToLabelmap twice in one load, a result that is one of the two
\* only is passed once.
C31_BothListsRegisterTwice ==
  \A i \in Loads :
    (Selected(i) /\ (IsDicom(primaryDataSource[i]) \/ IsImage(primaryDataSource[i]))) =>
      \A id \in Range(Loadables(i)) :
        LET inStudy == id \in Range(SegVolumesInStudy(i))
            byName == id \in Range(NameMatched(i))
        IN  /\ (inStudy /\ byName) => TimesRegistered(i, id) = 2
            /\ (inStudy /\ ~byName) => TimesRegistered(i, id) = 1
            /\ (~inStudy /\ byName) => TimesRegistered(i, id) = 1

\* seg1 is a SEG volume of the primary's study and matches by name, seg2
\* matches by name only
C31_Witness ==
  /\ outcome[1] = "fulfilled"
  /\ segmentGroupExtension = seg
  /\ primaryDataSource[1] = "ct1"
  /\ Loadables(1) = << "seg1", "ct1", "seg2" >>
  /\ TimesRegistered(1, "seg1") = 2
  /\ TimesRegistered(1, "seg2") = 1
  /\ "seg2" \notin Range(SegVolumesInStudy(1))

\* the line the aggregate error has for a failed source
LineOf(failed) ==
  << "- ", Head(Head(failed.errors).inputDataStackTrace), ": ",
     Head(failed.errors).message >>

\* C32: when the import of a batch resolves with k >= 1 failed sources, the
\* load records one aggregate error with k lines '- <name>: <message>', one
\* per failed source in batch order, made of the message of the source's
\* first error and the name of the first entry of that error's lineage; when
\* it resolves with no failed source, the load records no error.
C32_OneLinePerFailedSource ==
  [][\A i \in Loads :
       Resolves(i) =>
         IF Failed(i) = << >>
           THEN /\ loadingError' = loadingError
                /\ CallsOf(i, "setError")' = << >>
           ELSE /\ Len(CallsOf(i, "setError")') = 1
                /\ loadingError'.kind = "These files failed to load:"
                /\ Len(loadingError'.lines) = Len(Failed(i))
                /\ \A k \in 1..Len(Failed(i)) :
                     loadingError'.lines[k] = LineOf(Failed(i)[k])]_vars

\* two of four sources failed, the first with two errors and a lineage of
\* two entries
C32_Witness ==
  /\ outcome[1] = "fulfilled"
  /\ Len(sources[1]) = 4
  /\ Len(Failed(1)) = 2
  /\ Len(Failed(1)[1].errors) = 2
  /\ loadingError.lines =
       << << "- ", "slice.dcm", ": ", "decode failed" >>,
          << "- ", "notes.txt", ": ", "unsupported" >> >>
  /\ Len(CallsOf(1, "setError")) = 1

\* the step changes the percentile preset of a config the initializer watches
PresetChanges ==
  /\ wlSetup
  /\ windowConfig # << >>
  /\ windowConfig' # << >>
  /\ windowConfig'[1].auto # windowConfig[1].auto

\* C33: when the percentile preset of a view and image with a config
\* changes, the initializer sets min and max to the auto range of the new
\* preset and resets the window level, and applies neither the tag's window
\* level nor the forced one; without an image it makes no call.
C33_PresetChangeSetsRangeOnly ==
  [][PresetChanges =>
       LET range == autoRangeValues[windowConfig'[1].auto]
       IN  IF imageData
             THEN /\ wlCalls' =
                       << WlCall("updateConfig",
                                 [ min |-> range[1], max |-> range[2] ]),
                          WlCall("resetWindowLevel", NoPatch) >>
                  /\ windowConfig'[1].min = range[1]
                  /\ windowConfig'[1].max = range[2]
                  /\ windowConfig'[1].preset = windowConfig[1].preset
             ELSE /\ wlCalls' = << >>
                  /\ windowConfig' =
                       << [ windowConfig[1] EXCEPT
                              !.auto = windowConfig'[1].auto ] >>]_vars

\* the preset was changed for a config that the forced window level had set
C33_Witness ==
  /\ wlSetup
  /\ imageData
  /\ runtimeConfigWindowLevel # << >>
  /\ windowConfig # << >>
  /\ windowConfig[1].auto = "Wide"
  /\ windowConfig[1].min = 1
  /\ windowConfig[1].max = 99
  /\ windowConfig[1].preset = runtimeConfigWindowLevel[1]
  /\ Len(wlCalls) = 2
  /\ wlCalls[1].patch = [ min |-> 1, max |-> 99 ]

\* the value of a base64 character (0 for the padding)
Base64Value(ch) ==
  IF ch = "=" THEN 0
  ELSE (CHOOSE k \in 1..64 : base64Chars[k] = ch) - 1

CharOf(code) == CHOOSE ch \in DOMAIN charCode : charCode[ch] = code

\* the string a base64 text stands for
RECURSIVE Decoded(_)
Decoded(text) ==
  IF Len(text) < 4 THEN << >>
  ELSE LET n == Base64Value(text[1]) * 262144 + Base64Value(text[2]) * 4096
                + Base64Value(text[3]) * 64 + Base64Value(text[4])
           bytes == << n \div 65536, (n \div 256) % 256, n % 256 >>
           kept == IF text[3] = "=" THEN 1 ELSE IF text[4] = "=" THEN 2 ELSE 3
       IN  [ j \in 1..kept |-> CharOf(bytes[j]) ]
           \o Decoded(SubSeq(text, 5, Len(text)))

\* what follows 'volview-' in the peer ID of a bridge made on the page
IsPeerIdOf(id, page) ==
  /\ Len(id) >= 8
  /\ SubSeq(id, 1, 8) = << "v", "o", "l", "v", "i", "e", "w", "-" >>
  /\ LET rest == SubSeq(id, 9, Len(id))
     IN  IF page.projectId # << >> THEN rest = page.projectId
         ELSE IF page.datasetId # << >> THEN rest = page.datasetId
         ELSE IF page.uid # << >> THEN rest = page.uid
         ELSE /\ Len(rest) % 4 = 0
              /\ \A k \in 1..Len(rest) : rest[k] \in Range(base64Chars) \cup { "=" }
              /\ Decoded(rest) = page.href

\* C34: the peer ID of a bridge is 'volview-' followed by the first of
\* projectId, datasetId and uid that the query of its page has, or by the
\* base64 encoding of the page's href when it has none; it is the same for as
\* long as the bridge exists, wherever the page goes afterwards.
C34_PeerIdFromFirstParameter ==
  /\ [](\A g \in 1..Len(peerIds) : IsPeerIdOf(peerIds[g].peerId, peerIds[g].page))
  /\ [][\A g \in 1..Len(peerIds) :
          Len(peerIds') >= g /\ peerIds'[g] = peerIds[g]]_vars

\* a bridge made on a page with a dataset and a uid, one made on a page with
\* neither, and the page gone elsewhere since
C34_Witness ==
  /\ Len(peerIds) = 2
  /\ peerIds[1].page.projectId = << >>
  /\ peerIds[1].page.uid = << "u" >>
  /\ peerIds[1].peerId = << "v", "o", "l", "v", "i", "e", "w", "-", "d" >>
  /\ peerIds[2].page.href = << "a", ":", "/", "b" >>
  /\ peerIds[2].peerId =
       << "v", "o", "l", "v", "i", "e", "w", "-",
          "Y", "T", "o", "v", "Y", "g", "=", "=" >>
  /\ location # peerIds[2].page

\* the step is a call of serializeData
SerializeStep == lastSerialize'.calls = lastSerialize.calls + 1

\* the position of the first data ID of the call without files (0: none)
FirstMissing(dataIDs) ==
  LET missing == { k \in 1..Len(dataIDs) : DatasetFiles[dataIDs[k]] = << >> }
  IN  IF missing = { } THEN 0 ELSE Min(missing)

\* the data IDs of the call from its first one without files on
FromMissing(dataIDs) ==
  IF FirstMissing(dataIDs) = 0 THEN { }
  ELSE { dataIDs[k] : k \in FirstMissing(dataIDs)..Len(dataIDs) }

\* C35: serializeData throws 'No files for dataID' at the first data ID
\* of its list for which the file store has no files; for that ID and for
\* the IDs after it the call adds no dataset entry, no remote-file entry and
\* no zip file, and it throws nothing when every ID has files.
C35_ThrowsAtFirstMissing ==
  [][SerializeStep =>
       LET dataIDs == lastSerialize'.dataIDs
           first == FirstMissing(dataIDs)
           added == SubSeq(stateFile'.datasets, Len(stateFile.datasets) + 1,
                           Len(stateFile'.datasets))
       IN  /\ lastSerialize'.thrown =
                IF first = 0 THEN ""
                ELSE "No files for dataID: " \o dataIDs[first]
           /\ Len(added) = IF first = 0 THEN Len(dataIDs) ELSE first - 1
           /\ \A k \in 1..Len(added) : added[k].id = dataIDs[k]
           /\ \A id \in FromMissing(dataIDs) :
                /\ id \in DOMAIN stateFile'.remoteDatasetFileEntries
                     <=> id \in DOMAIN stateFile.remoteDatasetFileEntries
                /\ id \in DOMAIN stateFile.remoteDatasetFileEntries =>
                     stateFile'.remoteDatasetFileEntries[id] =
                       stateFile.remoteDatasetFileEntries[id]
                /\ \A name \in { "a.dcm", "b.dcm", "c.nii" } :
                     "data/" \o id \o "//" \o name \in stateFile'.zip
                       => "data/" \o id \o "//" \o name \in stateFile.zip]_vars

\* a call for d1, d3, d2 threw at d3: d1 was written, d2 was not
C35_Witness ==
  /\ lastSerialize.calls = 1
  /\ lastSerialize.dataIDs = << "d1", "d3", "d2" >>
  /\ lastSerialize.thrown = "No files for dataID: d3"
  /\ Len(stateFile.datasets) = 1
  /\ stateFile.datasets[1].id = "d1"
  /\ DOMAIN stateFile.remoteDatasetFileEntries = { "d1" }
  /\ stateFile.zip = { "data/d1//a.dcm" }

\* C36: the image ID a load from the bus writes into the record of its key
\* is the image ID of the primary selection this load made itself: a load
\* that selected nothing writes none, and no load writes the image ID of a
\* primary that another load selected.
C36_ImageIdOfOwnPrimary ==
  \A i \in Loads :
    \A k \in 1..Len(calls[i]) :
      calls[i][k].op = "setLoadedByBus" =>
        /\ calls[i][k].a = volumeKeySuffix[i]
        /\ CallsOf(i, "setPrimarySelection") # << >>
        /\ calls[i][k].b = CallsOf(i, "setPrimarySelection")[1].a
        /\ loadedByBus[volumeKeySuffix[i]]["imageID"] = calls[i][k].b

\* C37: an entry of the port registry is the port received last for its
\* peer: when a later handshake has replaced the port of a peer, the close
\* of the replaced port leaves the entry of its replacement in place.
C37_CloseOfReplacedPortKeepsEntry ==
  [][\A p \in Ports :
       CloseStep(p) =>
         \A g \in Instances : \A peer \in Peers :
           (ports[g][peer] # 0 /\ ports[g][peer] # p) =>
             ports'[g][peer] = ports[g][peer]]_vars

\* a getFile call has ended
Ended(r) == requests[r].state \in { "returned", "thrown", "rejected" }

\* C38: the remote file of a url is fetched at most once, however many
\* entries with that url are resolved in parallel; a request ends only after
\* that one fetch has settled, and then returns the fetched file with its own
\* path and name, throws when there is none, or fails with the fetch.
C38_OneFetchPerUrl ==
  /\ \A url \in Urls :
       /\ fetchCount[url] <= 1
       /\ fetchCount[url] = 1 <=>
            \E r \in Requests :
              remoteDatasetFileEntries[r[1]][r[2]].url = url
              /\ requests[r].state # "none"
  /\ \A r \in Requests :
       LET e == remoteDatasetFileEntries[r[1]][r[2]]
       IN  Ended(r) =>
             /\ cache[e.url] \notin { "absent", "pending" }
             /\ requests[r].state = "rejected" <=> cache[e.url] = "rejected"
             /\ requests[r].state = "returned" =>
                  requests[r].file = << [ path |-> e.path, name |-> e.name ] >>
             /\ requests[r].state = "thrown" =>
                  [ path |-> e.path, name |-> e.name ] \notin fetched[e.url]

\* three entries with the same url, of two datasets read in parallel, have
\* their files from one fetch; the entry without a matching file has thrown
C38_Witness ==
  /\ fetchCount = [ url \in Urls |-> 1 ]
  /\ requests[<< "m1", 1 >>].state = "returned"
  /\ requests[<< "m1", 2 >>].state = "returned"
  /\ requests[<< "m2", 1 >>].state = "returned"
  /\ requests[<< "m1", 2 >>].file = << [ path |-> "", name |-> "c.dcm" ] >>
  /\ requests[<< "m3", 1 >>].state = "thrown"

\* C39: every stored slice config whose min is not above its max has its
\* slice between min and max, after any updateConfig, resetSlice and
\* deserialize calls; an updateConfig call for a pair of view and data leaves
\* the config of every other pair as it was
C39_SliceWithinRange ==
  /\ [](\A p \in Pairs :
          (configs[p] # << >> /\ configs[p][1].min <= configs[p][1].max)
            => /\ configs[p][1].min <= configs[p][1].slice
               /\ configs[p][1].slice <= configs[p][1].max)
  /\ [][\A viewID \in SliceViews, dataID \in SliceData, patch \in Patches :
          UpdateConfig(viewID, dataID, patch)
            => \A p \in Pairs \ { << viewID, dataID >> } :
                 configs'[p] = configs[p]]_vars

\* a saved slice of 7 was stored as 5 under the saved max of 5, a slice of 20
\* was stored as 9 under the max of 9, and a resetSlice call has set a slice
C39_Witness ==
  /\ configs[<< "3D", "ct1" >>] # << >>
  /\ configs[<< "3D", "ct1" >>][1].max = 5
  /\ configs[<< "3D", "ct1" >>][1].slice = 5
  /\ configs[<< "Axial", "ct1" >>] # << >>
  /\ configs[<< "Axial", "ct1" >>][1].min = 3
  /\ configs[<< "Axial", "ct1" >>][1].max = 9
  /\ configs[<< "Axial", "ct1" >>][1].slice = 9
  /\ resetCall.state = "done"
  /\ resetCall.retryCount = 0
  /\ resetCall.slice # << >>

\* the value of [lo, hi] nearest to v
Within(v, lo, hi) == IF v < lo THEN lo ELSE IF v > hi THEN hi ELSE v

\* the slice a reset is to set under a config: the initial slice found, kept
\* within min and max, else the middle of min and max rounded up
ResetTarget(config, found) ==
  IF found # << >>
    THEN Within(found[1], config.min, config.max)
    ELSE (config.min + config.max + 1) \div 2

\* a resetSlice call is to poll: the view is one of the three slice views and
\* the primary selection is a DICOM volume that has a session key
IsToPoll(viewID) ==
  /\ viewID \in { "Axial", "Sagittal", "Coronal" }
  /\ primarySelection \in { id \in DOMAIN DicomCatalog :
                              volumeKeyGetSuffix(id) # "" }

\* C40: resetSlice does nothing when the pair has no config; it polls only
\* for a slice view whose primary selection is a DICOM volume with a session
\* key, at most 100 times; the slice it sets is the initial slice kept within
\* the config's min and max, or the middle of min and max rounded up when
\* there is none; a poll under way always ends
C40_ResetSetsInitialOrMiddle ==
  /\ [](resetCall.retryCount \in 0..100)
  /\ [][(resetCall' # resetCall)
          => LET pair == << resetCall'.viewID, resetCall'.dataID >>
             IN  /\ (configs[pair] = << >>)
                      <=> (resetCall'.state = "returned")
                 /\ resetCall'.state = "returned" => configs' = configs
                 /\ (resetCall.state # "polling"
                     /\ resetCall'.state = "polling")
                      => IsToPoll(resetCall'.viewID)
                 /\ (resetCall.state # "polling" /\ resetCall'.state = "done")
                      => ~IsToPoll(resetCall'.viewID)
                 /\ (resetCall'.state = "done"
                     /\ resetCall'.slice = << >>
                     /\ resetCall.state = "polling")
                      => resetCall'.retryCount = 0
                 /\ resetCall'.state = "done"
                      => LET current == configs[pair][1]
                             read == resetCall'.config[1]
                         IN  (current.min <= current.max
                              /\ read.min <= read.max)
                               => configs'[pair][1].slice \in
                                    { ResetTarget(current, resetCall'.slice),
                                      ResetTarget(read, resetCall'.slice) }]_vars
  /\ (resetCall.state = "polling") ~> (resetCall.state = "done")

====
